---- MODULE Spec2Model ----
(***************************************************************************)
(* Shielded pool of 0xr10t/zyncx (contracts/solana/zyncx): the commitment  *)
(* tree, the nullifier accounts, the proof-gated deposit / withdraw / swap  *)
(* instructions and the queue / callback / cancel instructions of the      *)
(* confidential computation requests.                                      *)
(*                                                                         *)
(* 32-byte values are terms: the all-zero value is <<>>, an opaque value    *)
(* (commitment, precommitment) is <<n>>, keccak(left || right) is the pair  *)
(* <<left, right>> and keccak(amount || precommitment) is a triple, so that *)
(* the hashes are injective and have disjoint ranges (collision             *)
(* resistance).  Amounts are counted in units of 1000 lamports.            *)
(*                                                                         *)
(* Every instruction is one atomic transaction of the host: a handler is    *)
(* an operator from the accounts to [err, w]; the action commits w only     *)
(* when err = "Ok" (a failed transaction leaves no account changed).       *)
(***************************************************************************)
EXTENDS Integers, Sequences, FiniteSets, TLC

VARIABLES vault, merkle_tree, nullifier_account, lamports, tokens, config,
          computation_request, now, root_log, consumed, calls, enc_vault, computation

vars == <<vault, merkle_tree, nullifier_account, lamports, tokens, config,
          computation_request, now, root_log, consumed, calls, enc_vault,
          computation>>

\* ------------------------------------------------------------------------
\* Bounds of the model
\* ------------------------------------------------------------------------
MaxTime == 2
MaxRequests == 1
TimeoutSeconds == 1
DepositorFunds == 1000
VariedPrefix == 2

\* ------------------------------------------------------------------------
\* Program constants
\* ------------------------------------------------------------------------
MAX_DEPTH == 20
ROOT_HISTORY_SIZE == 30
MAX_LEAVES == 100

\* The constants of the tree engine of programs/zyncx.
PROGRAMS_MAX_DEPTH == 32
PROGRAMS_ROOT_HISTORY_SIZE == 100

Zero == <<>>

NATIVE_MINT == "SOL"

\* ------------------------------------------------------------------------
\* u64 counters.  Amounts are multiples of the unit (1000 lamports), so a u64
\* is at most (2^64 - 1) \div 1000 = 18446744073709551 units; it is kept as two
\* limbs, value = hi * U64_LIMB + lo with lo < U64_LIMB.
\* ------------------------------------------------------------------------
U64_LIMB == 1000000000

U64_MAX == [hi |-> 18446744, lo |-> 73709551]

ToU64(n) == [hi |-> n \div U64_LIMB, lo |-> n % U64_LIMB]

u64_le(a, b) == a.hi < b.hi \/ (a.hi = b.hi /\ a.lo <= b.lo)

\* Faulty variant of checked_add: the sum wraps around 2^64 like wrapping_add.
wrapping_add(total, amount) ==
    LET sum == [hi |-> total.hi + (total.lo + amount) \div U64_LIMB,
                lo |-> (total.lo + amount) % U64_LIMB]
    IN IF u64_le(sum, U64_MAX) THEN [some |-> TRUE, value |-> sum]
       ELSE [some |-> TRUE,
             value |-> ToU64((sum.hi - U64_MAX.hi) * U64_LIMB + sum.lo - U64_MAX.lo - 1)]

\* u64::checked_add: None when the sum does not fit.
checked_add(total, amount) ==
    LET sum == [hi |-> total.hi + (total.lo + amount) \div U64_LIMB,
                lo |-> (total.lo + amount) % U64_LIMB]
    IN IF u64_le(sum, U64_MAX) THEN [some |-> TRUE, value |-> sum]
       ELSE [some |-> FALSE, value |-> total]

\* ------------------------------------------------------------------------
\* Commitment tree engine (state/merkle_tree.rs)
\* ------------------------------------------------------------------------
simple_hash(left, right) == <<left, right>>

poseidon_hash_commitment(amount, precommitment) == <<"keccak40", amount, precommitment>>

RECURSIVE next_level(_, _)
next_level(current_level, i) ==
    IF i > Len(current_level) THEN <<>>
    ELSE LET left == current_level[i]
             right == IF i + 1 <= Len(current_level) THEN current_level[i + 1] ELSE Zero
         IN <<simple_hash(left, right)>> \o next_level(current_level, i + 2)

RECURSIVE fold_levels(_)
fold_levels(current_level) ==
    IF Len(current_level) > 1 THEN fold_levels(next_level(current_level, 1))
    ELSE current_level[1]

\* Faulty variant of compute_root: no special case for a single leaf, whose
\* root is then the leaf itself.
compute_root_no_single_leaf_case(leaves) ==
    IF leaves = <<>> THEN Zero
    ELSE fold_levels(leaves)

compute_root(leaves) ==
    IF leaves = <<>> THEN Zero
    ELSE IF Len(leaves) = 1 THEN simple_hash(leaves[1], Zero)
    ELSE fold_levels(leaves)

RECURSIVE BitLength(_)
BitLength(n) == IF n = 0 THEN 0 ELSE 1 + BitLength(n \div 2)

\* Faulty variant of update_depth: the highest set bit of size, not of size - 1.
update_depth_of_size(size) == IF size = 0 THEN 0 ELSE BitLength(size)

update_depth(size) == IF size = 0 THEN 0 ELSE BitLength(size - 1)

EmptyTree ==
    [depth |-> 0, size |-> 0, current_root_index |-> 0, root |-> Zero,
     roots |-> [i \in 0..(ROOT_HISTORY_SIZE - 1) |-> Zero], leaves |-> <<>>]

\* Faulty variant of insert: the number of leaves is not checked.
insert_no_leaf_cap(t, leaf) ==
    IF ~(t.depth < MAX_DEPTH) THEN [err |-> "MaxDepthReached", t |-> t, root |-> Zero]
    ELSE LET leaves == Append(t.leaves, leaf)
             size == t.size + 1
             new_root == compute_root(leaves)
             idx == (t.current_root_index + 1) % ROOT_HISTORY_SIZE
         IN [err |-> "Ok",
             t |-> [depth |-> update_depth(size), size |-> size,
                    current_root_index |-> idx, root |-> new_root,
                    roots |-> [t.roots EXCEPT ![idx] = new_root],
                    leaves |-> leaves],
             root |-> new_root]

\* Faulty variant of insert: the new leaf is put in front of the stored
\* leaves instead of after them.
insert_at_front(t, leaf) ==
    IF ~(t.depth < MAX_DEPTH) THEN [err |-> "MaxDepthReached", t |-> t, root |-> Zero]
    ELSE IF ~(Len(t.leaves) < MAX_LEAVES) THEN [err |-> "MaxDepthReached", t |-> t, root |-> Zero]
    ELSE LET leaves == <<leaf>> \o t.leaves
             size == t.size + 1
             new_root == compute_root(leaves)
             idx == (t.current_root_index + 1) % ROOT_HISTORY_SIZE
         IN [err |-> "Ok",
             t |-> [depth |-> update_depth(size), size |-> size,
                    current_root_index |-> idx, root |-> new_root,
                    roots |-> [t.roots EXCEPT ![idx] = new_root],
                    leaves |-> leaves],
             root |-> new_root]

insert(t, leaf) ==
    IF ~(t.depth < MAX_DEPTH) THEN [err |-> "MaxDepthReached", t |-> t, root |-> Zero]
    ELSE IF ~(Len(t.leaves) < MAX_LEAVES) THEN [err |-> "MaxDepthReached", t |-> t, root |-> Zero]
    ELSE LET leaves == Append(t.leaves, leaf)
             size == t.size + 1
             new_root == compute_root(leaves)
             idx == (t.current_root_index + 1) % ROOT_HISTORY_SIZE
         IN [err |-> "Ok",
             t |-> [depth |-> update_depth(size), size |-> size,
                    current_root_index |-> idx, root |-> new_root,
                    roots |-> [t.roots EXCEPT ![idx] = new_root],
                    leaves |-> leaves],
             root |-> new_root]

RECURSIVE scan_roots(_, _, _, _)
scan_roots(t, root, index, remaining) ==
    IF remaining = 0 THEN FALSE
    ELSE IF t.roots[index] = root THEN TRUE
    ELSE scan_roots(t, root, IF index = 0 THEN ROOT_HISTORY_SIZE - 1 ELSE index - 1,
                    remaining - 1)

\* Faulty variant of root_exists: the zero root is looked up like any other.
root_exists_no_zero_check(t, root) ==
    scan_roots(t, root, t.current_root_index, ROOT_HISTORY_SIZE)

root_exists(t, root) ==
    IF root = Zero THEN FALSE
    ELSE scan_roots(t, root, t.current_root_index, ROOT_HISTORY_SIZE)

\* ------------------------------------------------------------------------
\* Commitment tree engine of programs/zyncx (programs/zyncx/src/state/
\* merkle_tree.rs): Poseidon instead of keccak, no single-leaf case in
\* compute_root, no leaf cap in insert.
\* ------------------------------------------------------------------------
poseidon_hash_two(left, right) == <<"poseidon", left, right>>

RECURSIVE programs_next_level(_, _)
programs_next_level(current_level, i) ==
    IF i > Len(current_level) THEN <<>>
    ELSE LET left == current_level[i]
             right == IF i + 1 <= Len(current_level) THEN current_level[i + 1] ELSE Zero
         IN <<poseidon_hash_two(left, right)>> \o programs_next_level(current_level, i + 2)

RECURSIVE programs_compute_root(_)
programs_compute_root(leaves) ==
    IF leaves = <<>> THEN Zero
    ELSE IF Len(leaves) > 1 THEN programs_compute_root(programs_next_level(leaves, 1))
    ELSE leaves[1]

\* The ring of this engine has PROGRAMS_ROOT_HISTORY_SIZE slots.
programs_insert(t, leaf) ==
    IF ~(t.depth < PROGRAMS_MAX_DEPTH) THEN [err |-> "MaxDepthReached", t |-> t, root |-> Zero]
    ELSE LET leaves == Append(t.leaves, leaf)
             size == t.size + 1
             new_root == programs_compute_root(leaves)
             idx == (t.current_root_index + 1) % PROGRAMS_ROOT_HISTORY_SIZE
         IN [err |-> "Ok",
             t |-> [depth |-> update_depth(size), size |-> size,
                    current_root_index |-> idx, root |-> new_root,
                    roots |-> [i \in 0..(PROGRAMS_ROOT_HISTORY_SIZE - 1) |->
                                 IF i = idx THEN new_root
                                 ELSE IF i \in DOMAIN t.roots THEN t.roots[i] ELSE Zero],
                    leaves |-> leaves],
             root |-> new_root]

\* ------------------------------------------------------------------------
\* Accounts, callers and inputs
\* ------------------------------------------------------------------------
Vaults == {"SOL", "USDC"}

Nullifiers == {1}

Users == {"alice", "bob"}

ARCIUM_MXE_PROGRAM_ID == "arcium_mxe"

JUPITER_V6_PROGRAM_ID == "jupiter_v6"

Commitments == {Zero, <<1>>}

VaultTypeOf(asset_mint) == IF asset_mint = NATIVE_MINT THEN "Native" ELSE "Alternative"

World ==
    [vault |-> vault, merkle_tree |-> merkle_tree, nullifier_account |-> nullifier_account,
     lamports |-> lamports, tokens |-> tokens, config |-> config,
     computation_request |-> computation_request, now |-> now]

\* The outcome of an instruction: its error ("Ok" on success), the accounts it
\* leaves, and what the external verifier program answered when it was invoked.
Res(err, w, verifier) == [err |-> err, w |-> w, verifier |-> verifier]

\* ------------------------------------------------------------------------
\* External proof verifier (spec section 6): a proof is empty, forged, or an
\* honest proof of exactly one statement (a list of public inputs).
\* ------------------------------------------------------------------------
EmptyProof == [kind |-> "empty", stmt |-> <<>>]

ForgedProof == [kind |-> "forged", stmt |-> <<>>]

HonestProof(stmt) == [kind |-> "honest", stmt |-> stmt]

is_empty(proof) == proof.kind = "empty"

VerifierAccepts(proof, public_inputs) ==
    proof.kind = "honest" /\ proof.stmt = public_inputs

\* Roots a prover can have anchored a proof to: the current root and the one
\* before it in the history.
KnownRoots(t) ==
    {t.root,
     t.roots[IF t.current_root_index = 0 THEN ROOT_HISTORY_SIZE - 1
             ELSE t.current_root_index - 1]}

Proofs(stmts) == {EmptyProof, ForgedProof} \cup {HonestProof(s) : s \in stmts}

\* ------------------------------------------------------------------------
\* Nullifier accounts: the account of `init` and the record the handlers write
\* ------------------------------------------------------------------------
NoNullifier == [exists |-> FALSE, nullifier |-> 0, spent |-> FALSE, spent_at |-> 0, vault |-> "none"]

\* Faulty variant of spend_nullifier: the account's seeds leave out the vault
\* key, so the one record of a nullifier stands under every vault.
spend_nullifier_any_vault(w, v, nullifier) ==
    [w EXCEPT !.nullifier_account =
        [u \in DOMAIN w.nullifier_account |->
            [w.nullifier_account[u] EXCEPT ![nullifier] =
                [exists |-> TRUE, nullifier |-> nullifier, spent |-> TRUE,
                 spent_at |-> w.now, vault |-> v]]]]

spend_nullifier(w, v, nullifier) ==
    [w EXCEPT !.nullifier_account[v][nullifier] =
        [exists |-> TRUE, nullifier |-> nullifier, spent |-> TRUE,
         spent_at |-> w.now, vault |-> v]]

\* ------------------------------------------------------------------------
\* Value movement (dex/jupiter.rs, token program, system program)
\* ------------------------------------------------------------------------
transfer_sol_from_treasury(w, v, amount) ==
    IF ~(w.lamports.treasury[v] >= amount) THEN Res("InsufficientFunds", w, "not_called")
    ELSE Res("Ok",
             [w EXCEPT !.lamports.treasury[v] = @ - amount,
                       !.lamports.recipient = @ + amount],
             "not_called")

\* Faulty variant of transfer_tokens_from_vault: the recipient is credited and
\* the vault's token account is not debited.
transfer_tokens_without_debit(w, v, amount) ==
    IF ~(w.tokens.vault_token_account[v] >= amount) THEN Res("TokenInsufficientFunds", w, "not_called")
    ELSE Res("Ok", [w EXCEPT !.tokens.recipient = @ + amount], "not_called")

transfer_tokens_from_vault(w, v, amount) ==
    IF ~(w.tokens.vault_token_account[v] >= amount) THEN Res("TokenInsufficientFunds", w, "not_called")
    ELSE Res("Ok",
             [w EXCEPT !.tokens.vault_token_account[v] = @ - amount,
                       !.tokens.recipient = @ + amount],
             "not_called")

\* The route is built off-chain: swap_data says whether the venue executes and
\* how much it takes from the source custody, which signs for it.
JupiterRoutes == {[ok |-> FALSE, amount |-> 0], [ok |-> TRUE, amount |-> 1000]}

execute_jupiter_swap(w, v, source, jupiter_program, swap_data) ==
    IF jupiter_program # JUPITER_V6_PROGRAM_ID THEN Res("InvalidSwapRouter", w, "not_called")
    ELSE IF ~swap_data.ok THEN Res("SwapExecutionFailed", w, "not_called")
    ELSE IF source = "lamports"
    THEN IF w.lamports.treasury[v] < swap_data.amount THEN Res("SwapExecutionFailed", w, "not_called")
         ELSE Res("Ok", [w EXCEPT !.lamports.treasury[v] = @ - swap_data.amount,
                                  !.tokens.recipient = @ + swap_data.amount], "not_called")
    ELSE IF w.tokens.vault_token_account[v] < swap_data.amount THEN Res("SwapExecutionFailed", w, "not_called")
         ELSE Res("Ok", [w EXCEPT !.tokens.vault_token_account[v] = @ - swap_data.amount,
                                  !.lamports.recipient = @ + swap_data.amount], "not_called")

\* ------------------------------------------------------------------------
\* Withdraw (instructions/withdraw.rs)
\* ------------------------------------------------------------------------
WithdrawPublicInputs(w, v, amount, nullifier, new_commitment, root) ==
    <<root, nullifier, "recipient", amount, new_commitment, w.vault[v].asset_mint>>

\* Faulty variant of withdraw_insert: appending the change commitment also
\* advances the vault's nonce, as a deposit does.
withdraw_insert_bumps_nonce(w, v, new_commitment) ==
    IF new_commitment # Zero
    THEN LET r == insert(w.merkle_tree[v], new_commitment)
         IN [err |-> r.err,
             w |-> [w EXCEPT !.merkle_tree[v] = r.t, !.vault[v].nonce = @ + 1]]
    ELSE [err |-> "Ok", w |-> w]

withdraw_insert(w, v, new_commitment) ==
    IF new_commitment # Zero
    THEN LET r == insert(w.merkle_tree[v], new_commitment)
         IN [err |-> r.err, w |-> [w EXCEPT !.merkle_tree[v] = r.t]]
    ELSE [err |-> "Ok", w |-> w]

\* Faulty variant of withdraw_handler_native: the nullifier account is
\* init_if_needed, so an existing account does not stop the instruction.
withdraw_native_init_if_needed(w, v, amount, nullifier, new_commitment, proof) ==
    IF ~(amount > 0) THEN Res("InvalidWithdrawalAmount", w, "not_called")
    ELSE IF w.vault[v].vault_type # "Native" THEN Res("VaultNotFound", w, "not_called")
    ELSE LET root == w.merkle_tree[v].root
             inputs == WithdrawPublicInputs(w, v, amount, nullifier, new_commitment, root)
         IN IF ~VerifierAccepts(proof, inputs) THEN Res("InvalidZKProof", w, "rejected")
            ELSE LET w1 == spend_nullifier(w, v, nullifier)
                     ins == withdraw_insert(w1, v, new_commitment)
                 IN IF ins.err # "Ok" THEN Res(ins.err, ins.w, "accepted")
                    ELSE IF ~(ins.w.lamports.treasury[v] >= amount)
                    THEN Res("InvalidWithdrawalAmount", ins.w, "accepted")
                    ELSE Res("Ok",
                             [ins.w EXCEPT !.lamports.treasury[v] = @ - amount,
                                           !.lamports.recipient = @ + amount],
                             "accepted")

\* Faulty variant of withdraw_handler_native: the amount paid out is taken off
\* the vault's total_deposited.
withdraw_native_reduces_total(w, v, amount, nullifier, new_commitment, proof) ==
    IF w.nullifier_account[v][nullifier].exists THEN Res("AccountAlreadyInUse", w, "not_called")
    ELSE IF ~(amount > 0) THEN Res("InvalidWithdrawalAmount", w, "not_called")
    ELSE IF w.vault[v].vault_type # "Native" THEN Res("VaultNotFound", w, "not_called")
    ELSE LET root == w.merkle_tree[v].root
             inputs == WithdrawPublicInputs(w, v, amount, nullifier, new_commitment, root)
         IN IF ~VerifierAccepts(proof, inputs) THEN Res("InvalidZKProof", w, "rejected")
            ELSE LET w1 == spend_nullifier(w, v, nullifier)
                     ins == withdraw_insert(w1, v, new_commitment)
                 IN IF ins.err # "Ok" THEN Res(ins.err, ins.w, "accepted")
                    ELSE IF ~(ins.w.lamports.treasury[v] >= amount)
                    THEN Res("InvalidWithdrawalAmount", ins.w, "accepted")
                    ELSE Res("Ok",
                             [ins.w EXCEPT !.lamports.treasury[v] = @ - amount,
                                           !.lamports.recipient = @ + amount,
                                           !.vault[v].total_deposited =
                                               ToU64(@.hi * U64_LIMB + @.lo - amount)],
                             "accepted")

withdraw_handler_native(w, v, amount, nullifier, new_commitment, proof) ==
    IF w.nullifier_account[v][nullifier].exists THEN Res("AccountAlreadyInUse", w, "not_called")
    ELSE IF ~(amount > 0) THEN Res("InvalidWithdrawalAmount", w, "not_called")
    ELSE IF w.vault[v].vault_type # "Native" THEN Res("VaultNotFound", w, "not_called")
    ELSE LET root == w.merkle_tree[v].root
             inputs == WithdrawPublicInputs(w, v, amount, nullifier, new_commitment, root)
         IN IF ~VerifierAccepts(proof, inputs) THEN Res("InvalidZKProof", w, "rejected")
            ELSE LET w1 == spend_nullifier(w, v, nullifier)
                     ins == withdraw_insert(w1, v, new_commitment)
                 IN IF ins.err # "Ok" THEN Res(ins.err, ins.w, "accepted")
                    ELSE IF ~(ins.w.lamports.treasury[v] >= amount)
                    THEN Res("InvalidWithdrawalAmount", ins.w, "accepted")
                    ELSE Res("Ok",
                             [ins.w EXCEPT !.lamports.treasury[v] = @ - amount,
                                           !.lamports.recipient = @ + amount],
                             "accepted")

\* Faulty variant of withdraw_handler_token: the verifier's answer is dropped,
\* only an empty proof is turned away.
withdraw_token_unverified(w, v, amount, nullifier, new_commitment, proof) ==
    IF w.nullifier_account[v][nullifier].exists THEN Res("AccountAlreadyInUse", w, "not_called")
    ELSE IF ~(amount > 0) THEN Res("InvalidWithdrawalAmount", w, "not_called")
    ELSE IF w.vault[v].vault_type # "Alternative" THEN Res("VaultNotFound", w, "not_called")
    ELSE IF is_empty(proof) THEN Res("InvalidZKProof", w, "rejected")
    ELSE LET w1 == spend_nullifier(w, v, nullifier)
             ins == withdraw_insert(w1, v, new_commitment)
         IN IF ins.err # "Ok" THEN Res(ins.err, ins.w, "accepted")
            ELSE LET tr == transfer_tokens_from_vault(ins.w, v, amount)
                 IN Res(tr.err, tr.w, "accepted")

withdraw_handler_token(w, v, amount, nullifier, new_commitment, proof) ==
    IF w.nullifier_account[v][nullifier].exists THEN Res("AccountAlreadyInUse", w, "not_called")
    ELSE IF ~(amount > 0) THEN Res("InvalidWithdrawalAmount", w, "not_called")
    ELSE IF w.vault[v].vault_type # "Alternative" THEN Res("VaultNotFound", w, "not_called")
    ELSE LET root == w.merkle_tree[v].root
             inputs == WithdrawPublicInputs(w, v, amount, nullifier, new_commitment, root)
         IN IF ~VerifierAccepts(proof, inputs) THEN Res("InvalidZKProof", w, "rejected")
            ELSE LET w1 == spend_nullifier(w, v, nullifier)
                     ins == withdraw_insert(w1, v, new_commitment)
                 IN IF ins.err # "Ok" THEN Res(ins.err, ins.w, "accepted")
                    ELSE LET tr == transfer_tokens_from_vault(ins.w, v, amount)
                         IN Res(tr.err, tr.w, "accepted")

\* ------------------------------------------------------------------------
\* Withdraw of programs/zyncx (programs/zyncx/src/instructions/withdraw.rs)
\* ------------------------------------------------------------------------
ProgramsWithdrawPublicInputs(amount, root, new_commitment, nullifier) ==
    <<amount, root, new_commitment, nullifier>>

programs_verify_groth16_proof(proof, public_inputs) ==
    IF is_empty(proof) THEN "InvalidZKProof" ELSE "Ok"

programs_withdraw_handler_native(w, v, amount, nullifier, new_commitment, proof) ==
    IF w.nullifier_account[v][nullifier].exists THEN Res("AccountAlreadyInUse", w, "not_called")
    ELSE IF ~(amount > 0) THEN Res("InvalidWithdrawalAmount", w, "not_called")
    ELSE IF w.vault[v].vault_type # "Native" THEN Res("VaultNotFound", w, "not_called")
    ELSE LET root == w.merkle_tree[v].root
             inputs == ProgramsWithdrawPublicInputs(amount, root, new_commitment, nullifier)
             ver == programs_verify_groth16_proof(proof, inputs)
         IN IF ver # "Ok" THEN Res(ver, w, "not_called")
            ELSE LET w1 == spend_nullifier(w, v, nullifier)
                     r == programs_insert(w1.merkle_tree[v], new_commitment)
                     w2 == [w1 EXCEPT !.merkle_tree[v] = r.t]
                 IN IF r.err # "Ok" THEN Res(r.err, w1, "not_called")
                    ELSE IF ~(w2.lamports.treasury[v] >= amount)
                    THEN Res("InvalidWithdrawalAmount", w2, "not_called")
                    ELSE Res("Ok",
                             [w2 EXCEPT !.lamports.treasury[v] = @ - amount,
                                        !.lamports.recipient = @ + amount],
                             "not_called")

programs_withdraw_handler_token(w, v, amount, nullifier, new_commitment, proof) ==
    IF w.nullifier_account[v][nullifier].exists THEN Res("AccountAlreadyInUse", w, "not_called")
    ELSE IF ~(amount > 0) THEN Res("InvalidWithdrawalAmount", w, "not_called")
    ELSE IF w.vault[v].vault_type # "Alternative" THEN Res("VaultNotFound", w, "not_called")
    ELSE LET root == w.merkle_tree[v].root
             inputs == ProgramsWithdrawPublicInputs(amount, root, new_commitment, nullifier)
             ver == programs_verify_groth16_proof(proof, inputs)
         IN IF ver # "Ok" THEN Res(ver, w, "not_called")
            ELSE LET w1 == spend_nullifier(w, v, nullifier)
                     r == programs_insert(w1.merkle_tree[v], new_commitment)
                     w2 == [w1 EXCEPT !.merkle_tree[v] = r.t]
                 IN IF r.err # "Ok" THEN Res(r.err, w1, "not_called")
                    ELSE transfer_tokens_from_vault(w2, v, amount)

\* ------------------------------------------------------------------------
\* Swap and cross-token swap (instructions/swap.rs)
\* ------------------------------------------------------------------------
SwapPublicInputs(amount_in, root, new_commitment, nullifier) ==
    <<amount_in, root, new_commitment, nullifier>>

CrossSwapPublicInputs(src_root, nullifier, src_token, dst_token, dst_commitment, min_amount_out) ==
    <<src_root, nullifier, src_token, dst_token, dst_commitment, min_amount_out>>

verify_groth16_proof(proof, public_inputs) ==
    IF is_empty(proof) THEN "InvalidZKProof" ELSE "Ok"

verify_swap_proof(proof, public_inputs) ==
    IF is_empty(proof) THEN "InvalidZKProof" ELSE "Ok"

\* swap_param: [src_token, dst_token, amount_in]; min_amount_out is fixed to 0.
swap_handler_native(w, v, swap_param, nullifier, new_commitment, proof, swap_data) ==
    IF w.nullifier_account[v][nullifier].exists THEN Res("AccountAlreadyInUse", w, "not_called")
    ELSE IF ~(swap_param.amount_in > 0) THEN Res("InvalidSwapAmount", w, "not_called")
    ELSE IF w.vault[v].vault_type # "Native" THEN Res("VaultNotFound", w, "not_called")
    ELSE LET root == w.merkle_tree[v].root
             inputs == SwapPublicInputs(swap_param.amount_in, root, new_commitment, nullifier)
             ver == verify_groth16_proof(proof, inputs)
         IN IF ver # "Ok" THEN Res(ver, w, "not_called")
            ELSE LET w1 == spend_nullifier(w, v, nullifier)
                     r == insert(w1.merkle_tree[v], new_commitment)
                     w2 == [w1 EXCEPT !.merkle_tree[v] = r.t]
                 IN IF r.err # "Ok" THEN Res(r.err, w1, "not_called")
                    ELSE IF swap_param.src_token = swap_param.dst_token
                    THEN transfer_sol_from_treasury(w2, v, swap_param.amount_in)
                    ELSE execute_jupiter_swap(w2, v, "lamports", JUPITER_V6_PROGRAM_ID, swap_data)

swap_handler_token(w, v, swap_param, nullifier, new_commitment, proof, swap_data) ==
    IF w.nullifier_account[v][nullifier].exists THEN Res("AccountAlreadyInUse", w, "not_called")
    ELSE IF ~(swap_param.amount_in > 0) THEN Res("InvalidSwapAmount", w, "not_called")
    ELSE IF w.vault[v].vault_type # "Alternative" THEN Res("VaultNotFound", w, "not_called")
    ELSE LET root == w.merkle_tree[v].root
             inputs == SwapPublicInputs(swap_param.amount_in, root, new_commitment, nullifier)
             ver == verify_groth16_proof(proof, inputs)
         IN IF ver # "Ok" THEN Res(ver, w, "not_called")
            ELSE LET w1 == spend_nullifier(w, v, nullifier)
                     r == insert(w1.merkle_tree[v], new_commitment)
                     w2 == [w1 EXCEPT !.merkle_tree[v] = r.t]
                 IN IF r.err # "Ok" THEN Res(r.err, w1, "not_called")
                    ELSE IF swap_param.src_token = swap_param.dst_token
                    THEN transfer_tokens_from_vault(w2, v, swap_param.amount_in)
                    ELSE execute_jupiter_swap(w2, v, "tokens", JUPITER_V6_PROGRAM_ID, swap_data)

\* Faulty variant of handler_cross_token: new_commitment goes into the source
\* vault's tree.
cross_token_inserts_into_source(w, src, dst, swap_param, nullifier, new_commitment, proof, swap_data) ==
    IF w.nullifier_account[src][nullifier].exists THEN Res("AccountAlreadyInUse", w, "not_called")
    ELSE IF ~(dst # src) THEN Res("SameVaultSwap", w, "not_called")
    ELSE IF ~(swap_param.amount_in > 0) THEN Res("InvalidSwapAmount", w, "not_called")
    ELSE IF swap_param.src_token # w.vault[src].asset_mint THEN Res("TokenMintMismatch", w, "not_called")
    ELSE IF swap_param.dst_token # w.vault[dst].asset_mint THEN Res("TokenMintMismatch", w, "not_called")
    ELSE LET src_root == w.merkle_tree[src].root
             inputs == CrossSwapPublicInputs(src_root, nullifier, swap_param.src_token,
                                             swap_param.dst_token, new_commitment, 0)
             ver == verify_swap_proof(proof, inputs)
         IN IF ver # "Ok" THEN Res(ver, w, "not_called")
            ELSE LET w1 == spend_nullifier(w, src, nullifier)
                     r == insert(w1.merkle_tree[src], new_commitment)
                     w2 == [w1 EXCEPT !.merkle_tree[src] = r.t]
                 IN IF r.err # "Ok" THEN Res(r.err, w1, "not_called")
                    ELSE execute_jupiter_swap(w2, src, "lamports", JUPITER_V6_PROGRAM_ID, swap_data)

handler_cross_token(w, src, dst, swap_param, nullifier, new_commitment, proof, swap_data) ==
    IF w.nullifier_account[src][nullifier].exists THEN Res("AccountAlreadyInUse", w, "not_called")
    ELSE IF ~(dst # src) THEN Res("SameVaultSwap", w, "not_called")
    ELSE IF ~(swap_param.amount_in > 0) THEN Res("InvalidSwapAmount", w, "not_called")
    ELSE IF swap_param.src_token # w.vault[src].asset_mint THEN Res("TokenMintMismatch", w, "not_called")
    ELSE IF swap_param.dst_token # w.vault[dst].asset_mint THEN Res("TokenMintMismatch", w, "not_called")
    ELSE LET src_root == w.merkle_tree[src].root
             inputs == CrossSwapPublicInputs(src_root, nullifier, swap_param.src_token,
                                             swap_param.dst_token, new_commitment, 0)
             ver == verify_swap_proof(proof, inputs)
         IN IF ver # "Ok" THEN Res(ver, w, "not_called")
            ELSE LET w1 == spend_nullifier(w, src, nullifier)
                     r == insert(w1.merkle_tree[dst], new_commitment)
                     w2 == [w1 EXCEPT !.merkle_tree[dst] = r.t]
                 IN IF r.err # "Ok" THEN Res(r.err, w1, "not_called")
                    ELSE execute_jupiter_swap(w2, src, "lamports", JUPITER_V6_PROGRAM_ID, swap_data)

\* ------------------------------------------------------------------------
\* Deposit (instructions/deposit.rs)
\* ------------------------------------------------------------------------
\* The outcome of a deposit: as Res, with the commitment the handler returns.
DepositRes(err, w, ret) == [err |-> err, w |-> w, verifier |-> "not_called", ret |-> ret]

\* Faulty variant of deposit_update_vault: the nonce is left as it was.
deposit_update_vault_keeps_nonce(w, v, amount, commitment) ==
    LET r == insert(w.merkle_tree[v], commitment)
        w1 == [w EXCEPT !.merkle_tree[v] = r.t]
        total == checked_add(w1.vault[v].total_deposited, amount)
    IN IF r.err # "Ok" THEN DepositRes(r.err, w, Zero)
       ELSE IF ~total.some THEN DepositRes("ArithmeticOverflow", w1, Zero)
       ELSE DepositRes("Ok", [w1 EXCEPT !.vault[v].total_deposited = total.value], commitment)

deposit_update_vault(w, v, amount, commitment) ==
    LET r == insert(w.merkle_tree[v], commitment)
        w1 == [w EXCEPT !.merkle_tree[v] = r.t]
        w2 == [w1 EXCEPT !.vault[v].nonce = @ + 1]
        total == checked_add(w2.vault[v].total_deposited, amount)
    IN IF r.err # "Ok" THEN DepositRes(r.err, w, Zero)
       ELSE IF ~total.some THEN DepositRes("ArithmeticOverflow", w2, Zero)
       ELSE DepositRes("Ok", [w2 EXCEPT !.vault[v].total_deposited = total.value], commitment)

\* Faulty variant of deposit_handler_native: the vault's kind is not looked at.
deposit_native_any_vault(w, v, amount, precommitment) ==
    IF ~(amount > 0) THEN DepositRes("InvalidDepositAmount", w, Zero)
    ELSE IF w.lamports.depositor < amount THEN DepositRes("SystemInsufficientFunds", w, Zero)
    ELSE LET w1 == [w EXCEPT !.lamports.depositor = @ - amount,
                             !.lamports.treasury[v] = @ + amount]
         IN deposit_update_vault(w1, v, amount, poseidon_hash_commitment(amount, precommitment))

deposit_handler_native(w, v, amount, precommitment) ==
    IF ~(amount > 0) THEN DepositRes("InvalidDepositAmount", w, Zero)
    ELSE IF w.vault[v].vault_type # "Native" THEN DepositRes("VaultNotFound", w, Zero)
    ELSE IF w.lamports.depositor < amount THEN DepositRes("SystemInsufficientFunds", w, Zero)
    ELSE LET w1 == [w EXCEPT !.lamports.depositor = @ - amount,
                             !.lamports.treasury[v] = @ + amount]
         IN deposit_update_vault(w1, v, amount, poseidon_hash_commitment(amount, precommitment))

deposit_handler_token(w, v, amount, precommitment) ==
    IF ~(amount > 0) THEN DepositRes("InvalidDepositAmount", w, Zero)
    ELSE IF w.vault[v].vault_type # "Alternative" THEN DepositRes("VaultNotFound", w, Zero)
    ELSE IF w.tokens.depositor < amount THEN DepositRes("TokenInsufficientFunds", w, Zero)
    ELSE LET w1 == [w EXCEPT !.tokens.depositor = @ - amount,
                             !.tokens.vault_token_account[v] = @ + amount]
         IN deposit_update_vault(w1, v, amount, poseidon_hash_commitment(amount, precommitment))

\* ------------------------------------------------------------------------
\* Confidential computation requests (instructions/confidential.rs)
\* ------------------------------------------------------------------------
\* Request accounts are addressed by the counter value at queue time; the slot
\* the counter points to past the last queued request is always free.
RequestIds == 0..MaxRequests

EncryptedResult == <<7>>

NoRequest ==
    [exists |-> FALSE, request_id |-> 0, user |-> "none", vault |-> "none",
     status |-> "Pending", amount |-> 0, src_token |-> "none", dst_token |-> "none",
     nullifier |-> 0, new_commitment |-> Zero, queued_at |-> 0, completed_at |-> 0,
     result |-> <<>>, expires_at |-> 0]

\* Faulty variant of handler_create_nullifier: the account is init_if_needed,
\* so an existing record is overwritten with a fresh unspent one.
create_nullifier_init_if_needed(w, v, nullifier) ==
    Res("Ok",
        [w EXCEPT !.nullifier_account[v][nullifier] =
            [exists |-> TRUE, nullifier |-> nullifier, spent |-> FALSE,
             spent_at |-> 0, vault |-> v]],
        "not_called")

handler_create_nullifier(w, v, nullifier) ==
    IF w.nullifier_account[v][nullifier].exists THEN Res("AccountAlreadyInUse", w, "not_called")
    ELSE Res("Ok",
             [w EXCEPT !.nullifier_account[v][nullifier] =
                 [exists |-> TRUE, nullifier |-> nullifier, spent |-> FALSE,
                  spent_at |-> 0, vault |-> v]],
             "not_called")

\* Faulty variant of next_request_id: the counter is read and not advanced.
next_request_id_keeps_counter(cfg) ==
    [id |-> cfg.request_counter,
     config |-> cfg]

next_request_id(cfg) ==
    [id |-> cfg.request_counter,
     config |-> [cfg EXCEPT !.request_counter = @ + 1]]

\* params: [src_token, dst_token, amount, nullifier, new_commitment]
process_queue_confidential_swap(w, user, v, params, proof) ==
    IF w.computation_request[w.config.request_counter].exists
    THEN Res("AccountAlreadyInUse", w, "not_called")
    ELSE IF ~w.nullifier_account[v][params.nullifier].exists
    THEN Res("AccountNotInitialized", w, "not_called")
    ELSE IF ~(~w.nullifier_account[v][params.nullifier].spent)
    THEN Res("NullifierAlreadySpent", w, "not_called")
    ELSE IF ~w.config.swaps_enabled THEN Res("ConfidentialSwapsDisabled", w, "not_called")
    ELSE IF ~(params.amount >= w.config.min_amount) THEN Res("AmountTooSmall", w, "not_called")
    ELSE IF ~(params.amount <= w.config.max_amount) THEN Res("AmountTooLarge", w, "not_called")
    ELSE IF params.src_token = NATIVE_MINT /\ w.vault[v].vault_type # "Native"
    THEN Res("VaultNotFound", w, "not_called")
    ELSE IF params.src_token # NATIVE_MINT /\ w.vault[v].vault_type # "Alternative"
    THEN Res("VaultNotFound", w, "not_called")
    ELSE IF params.src_token # NATIVE_MINT /\ w.vault[v].asset_mint # params.src_token
    THEN Res("InvalidMint", w, "not_called")
    ELSE IF ~(~is_empty(proof)) THEN Res("InvalidZKProof", w, "not_called")
    ELSE LET w1 == [w EXCEPT !.nullifier_account[v][params.nullifier] =
                        [@ EXCEPT !.nullifier = params.nullifier, !.spent = TRUE,
                                  !.spent_at = w.now, !.vault = v]]
             nxt == next_request_id(w1.config)
             request ==
                 [exists |-> TRUE, request_id |-> nxt.id, user |-> user, vault |-> v,
                  status |-> "Pending", amount |-> params.amount,
                  src_token |-> params.src_token, dst_token |-> params.dst_token,
                  nullifier |-> params.nullifier, new_commitment |-> params.new_commitment,
                  queued_at |-> w.now, completed_at |-> 0, result |-> <<>>,
                  expires_at |-> w.now + w1.config.timeout_seconds]
         IN Res("Ok",
                [w1 EXCEPT !.config = nxt.config,
                           !.computation_request[w.config.request_counter] = request],
                "not_called")

\* Faulty variant of handler_confidential_swap_callback: a successful
\* computation moves the value without inserting the request's commitment.
callback_no_commitment_insert(w, signer, request_id, computation_success, encrypted_result, jupiter_program, swap_data) ==
    IF signer # ARCIUM_MXE_PROGRAM_ID THEN Res("ConstraintAddress", w, "not_called")
    ELSE IF ~w.computation_request[request_id].exists
    THEN Res("AccountNotInitialized", w, "not_called")
    ELSE IF ~(w.computation_request[request_id].status = "Pending")
    THEN Res("InvalidComputationStatus", w, "not_called")
    ELSE IF ~(w.now <= w.computation_request[request_id].expires_at)
    THEN Res("ComputationExpired", w, "not_called")
    ELSE LET w1 == [w EXCEPT !.computation_request[request_id] =
                        [@ EXCEPT !.status = IF computation_success THEN "Completed" ELSE "Failed",
                                  !.completed_at = w.now,
                                  !.result = encrypted_result]]
             req == w1.computation_request[request_id]
             v == req.src_token
         IN IF ~computation_success THEN Res("Ok", w1, "not_called")
            ELSE IF req.src_token = req.dst_token
            THEN transfer_sol_from_treasury(w1, v, req.amount)
            ELSE execute_jupiter_swap(w1, v, "lamports", jupiter_program, swap_data)

\* Faulty variant of handler_confidential_swap_callback: a failed computation
\* falls through to the commitment insert instead of returning.
callback_failure_inserts(w, signer, request_id, computation_success, encrypted_result, jupiter_program, swap_data) ==
    IF signer # ARCIUM_MXE_PROGRAM_ID THEN Res("ConstraintAddress", w, "not_called")
    ELSE IF ~w.computation_request[request_id].exists
    THEN Res("AccountNotInitialized", w, "not_called")
    ELSE IF ~(w.computation_request[request_id].status = "Pending")
    THEN Res("InvalidComputationStatus", w, "not_called")
    ELSE IF ~(w.now <= w.computation_request[request_id].expires_at)
    THEN Res("ComputationExpired", w, "not_called")
    ELSE LET w1 == [w EXCEPT !.computation_request[request_id] =
                        [@ EXCEPT !.status = IF computation_success THEN "Completed" ELSE "Failed",
                                  !.completed_at = w.now,
                                  !.result = encrypted_result]]
             req == w1.computation_request[request_id]
             v == req.src_token
             r == insert(w1.merkle_tree[v], req.new_commitment)
             w2 == [w1 EXCEPT !.merkle_tree[v] = r.t]
         IN IF r.err # "Ok" THEN Res(r.err, w1, "not_called")
            ELSE IF ~computation_success THEN Res("Ok", w2, "not_called")
            ELSE IF req.src_token = req.dst_token
            THEN transfer_sol_from_treasury(w2, v, req.amount)
            ELSE execute_jupiter_swap(w2, v, "lamports", jupiter_program, swap_data)

\* Faulty variant of handler_confidential_swap_callback: the expiry check is
\* strict, so a callback at now = expires_at is turned away.
callback_strict_expiry(w, signer, request_id, computation_success, encrypted_result, jupiter_program, swap_data) ==
    IF signer # ARCIUM_MXE_PROGRAM_ID THEN Res("ConstraintAddress", w, "not_called")
    ELSE IF ~w.computation_request[request_id].exists
    THEN Res("AccountNotInitialized", w, "not_called")
    ELSE IF ~(w.computation_request[request_id].status = "Pending")
    THEN Res("InvalidComputationStatus", w, "not_called")
    ELSE IF ~(w.now < w.computation_request[request_id].expires_at)
    THEN Res("ComputationExpired", w, "not_called")
    ELSE LET w1 == [w EXCEPT !.computation_request[request_id] =
                        [@ EXCEPT !.status = IF computation_success THEN "Completed" ELSE "Failed",
                                  !.completed_at = w.now,
                                  !.result = encrypted_result]]
             req == w1.computation_request[request_id]
             v == req.src_token
         IN IF ~computation_success THEN Res("Ok", w1, "not_called")
            ELSE LET r == insert(w1.merkle_tree[v], req.new_commitment)
                     w2 == [w1 EXCEPT !.merkle_tree[v] = r.t]
                 IN IF r.err # "Ok" THEN Res(r.err, w1, "not_called")
                    ELSE IF req.src_token = req.dst_token
                    THEN transfer_sol_from_treasury(w2, v, req.amount)
                    ELSE execute_jupiter_swap(w2, v, "lamports", jupiter_program, swap_data)

\* Faulty variant of handler_confidential_swap_callback: the status constraint
\* is missing, so a finished request takes a second callback.
callback_any_status(w, signer, request_id, computation_success, encrypted_result, jupiter_program, swap_data) ==
    IF signer # ARCIUM_MXE_PROGRAM_ID THEN Res("ConstraintAddress", w, "not_called")
    ELSE IF ~w.computation_request[request_id].exists
    THEN Res("AccountNotInitialized", w, "not_called")
    ELSE IF ~(w.now <= w.computation_request[request_id].expires_at)
    THEN Res("ComputationExpired", w, "not_called")
    ELSE LET w1 == [w EXCEPT !.computation_request[request_id] =
                        [@ EXCEPT !.status = IF computation_success THEN "Completed" ELSE "Failed",
                                  !.completed_at = w.now,
                                  !.result = encrypted_result]]
         IN Res("Ok", w1, "not_called")

\* Faulty variant of handler_confidential_swap_callback: the address constraint
\* on arcium_signer is missing, any signer's callback is processed.
callback_any_signer(w, signer, request_id, computation_success, encrypted_result, jupiter_program, swap_data) ==
    IF ~w.computation_request[request_id].exists
    THEN Res("AccountNotInitialized", w, "not_called")
    ELSE IF ~(w.computation_request[request_id].status = "Pending")
    THEN Res("InvalidComputationStatus", w, "not_called")
    ELSE IF ~(w.now <= w.computation_request[request_id].expires_at)
    THEN Res("ComputationExpired", w, "not_called")
    ELSE LET w1 == [w EXCEPT !.computation_request[request_id] =
                        [@ EXCEPT !.status = IF computation_success THEN "Completed" ELSE "Failed",
                                  !.completed_at = w.now,
                                  !.result = encrypted_result]]
             req == w1.computation_request[request_id]
             v == req.src_token
         IN IF ~computation_success THEN Res("Ok", w1, "not_called")
            ELSE LET r == insert(w1.merkle_tree[v], req.new_commitment)
                     w2 == [w1 EXCEPT !.merkle_tree[v] = r.t]
                 IN IF r.err # "Ok" THEN Res(r.err, w1, "not_called")
                    ELSE IF req.src_token = req.dst_token
                    THEN IF ~(w2.lamports.treasury[v] >= req.amount)
                         THEN Res("InsufficientFunds", w2, "not_called")
                         ELSE Res("Ok",
                                  [w2 EXCEPT !.lamports.treasury[v] = @ - req.amount,
                                             !.lamports.recipient = @ + req.amount],
                                  "not_called")
                    ELSE execute_jupiter_swap(w2, v, "lamports", jupiter_program, swap_data)

\* Faulty variant of handler_confidential_swap_callback: a direct transfer the
\* treasury cannot cover is skipped and the callback still ends in Ok.
callback_swallows_failure(w, signer, request_id, computation_success, encrypted_result, jupiter_program, swap_data) ==
    IF signer # ARCIUM_MXE_PROGRAM_ID THEN Res("ConstraintAddress", w, "not_called")
    ELSE IF ~w.computation_request[request_id].exists
    THEN Res("AccountNotInitialized", w, "not_called")
    ELSE IF ~(w.computation_request[request_id].status = "Pending")
    THEN Res("InvalidComputationStatus", w, "not_called")
    ELSE IF ~(w.now <= w.computation_request[request_id].expires_at)
    THEN Res("ComputationExpired", w, "not_called")
    ELSE LET w1 == [w EXCEPT !.computation_request[request_id] =
                        [@ EXCEPT !.status = IF computation_success THEN "Completed" ELSE "Failed",
                                  !.completed_at = w.now,
                                  !.result = encrypted_result]]
             req == w1.computation_request[request_id]
             v == req.src_token
         IN IF ~computation_success THEN Res("Ok", w1, "not_called")
            ELSE LET r == insert(w1.merkle_tree[v], req.new_commitment)
                     w2 == [w1 EXCEPT !.merkle_tree[v] = r.t]
                 IN IF r.err # "Ok" THEN Res(r.err, w1, "not_called")
                    ELSE IF req.src_token = req.dst_token
                    THEN IF ~(w2.lamports.treasury[v] >= req.amount)
                         THEN Res("Ok", w2, "not_called")
                         ELSE Res("Ok",
                                  [w2 EXCEPT !.lamports.treasury[v] = @ - req.amount,
                                             !.lamports.recipient = @ + req.amount],
                                  "not_called")
                    ELSE execute_jupiter_swap(w2, v, "lamports", jupiter_program, swap_data)

handler_confidential_swap_callback(w, signer, request_id, computation_success, encrypted_result, jupiter_program, swap_data) ==
    IF signer # ARCIUM_MXE_PROGRAM_ID THEN Res("ConstraintAddress", w, "not_called")
    ELSE IF ~w.computation_request[request_id].exists
    THEN Res("AccountNotInitialized", w, "not_called")
    ELSE IF ~(w.computation_request[request_id].status = "Pending")
    THEN Res("InvalidComputationStatus", w, "not_called")
    ELSE IF ~(w.now <= w.computation_request[request_id].expires_at)
    THEN Res("ComputationExpired", w, "not_called")
    ELSE LET w1 == [w EXCEPT !.computation_request[request_id] =
                        [@ EXCEPT !.status = IF computation_success THEN "Completed" ELSE "Failed",
                                  !.completed_at = w.now,
                                  !.result = encrypted_result]]
             req == w1.computation_request[request_id]
             v == req.src_token
         IN IF ~computation_success THEN Res("Ok", w1, "not_called")
            ELSE LET r == insert(w1.merkle_tree[v], req.new_commitment)
                     w2 == [w1 EXCEPT !.merkle_tree[v] = r.t]
                 IN IF r.err # "Ok" THEN Res(r.err, w1, "not_called")
                    ELSE IF req.src_token = req.dst_token
                    THEN IF ~(w2.lamports.treasury[v] >= req.amount)
                         THEN Res("InsufficientFunds", w2, "not_called")
                         ELSE Res("Ok",
                                  [w2 EXCEPT !.lamports.treasury[v] = @ - req.amount,
                                             !.lamports.recipient = @ + req.amount],
                                  "not_called")
                    ELSE execute_jupiter_swap(w2, v, "lamports", jupiter_program, swap_data)

\* Faulty variant of handler_cancel_computation: the expiry check admits
\* now = expires_at.
cancel_at_expiry(w, user, request_id) ==
    IF ~w.computation_request[request_id].exists
    THEN Res("AccountNotInitialized", w, "not_called")
    ELSE IF ~(w.computation_request[request_id].user = user)
    THEN Res("Unauthorized", w, "not_called")
    ELSE IF ~(w.computation_request[request_id].status = "Pending")
    THEN Res("InvalidComputationStatus", w, "not_called")
    ELSE IF ~(w.now >= w.computation_request[request_id].expires_at)
    THEN Res("ComputationNotExpired", w, "not_called")
    ELSE Res("Ok", [w EXCEPT !.computation_request[request_id] = NoRequest], "not_called")

\* Faulty variant of handler_cancel_computation: the constraint asks for the
\* status Expired, which no instruction ever writes.
cancel_requires_expired_status(w, user, request_id) ==
    IF ~w.computation_request[request_id].exists
    THEN Res("AccountNotInitialized", w, "not_called")
    ELSE IF ~(w.computation_request[request_id].user = user)
    THEN Res("Unauthorized", w, "not_called")
    ELSE IF ~(w.computation_request[request_id].status = "Expired")
    THEN Res("InvalidComputationStatus", w, "not_called")
    ELSE IF ~(w.now > w.computation_request[request_id].expires_at)
    THEN Res("ComputationNotExpired", w, "not_called")
    ELSE Res("Ok", [w EXCEPT !.computation_request[request_id] = NoRequest], "not_called")

handler_cancel_computation(w, user, request_id) ==
    IF ~w.computation_request[request_id].exists
    THEN Res("AccountNotInitialized", w, "not_called")
    ELSE IF ~(w.computation_request[request_id].user = user)
    THEN Res("Unauthorized", w, "not_called")
    ELSE IF ~(w.computation_request[request_id].status = "Pending")
    THEN Res("InvalidComputationStatus", w, "not_called")
    ELSE IF ~(w.now > w.computation_request[request_id].expires_at)
    THEN Res("ComputationNotExpired", w, "not_called")
    ELSE Res("Ok", [w EXCEPT !.computation_request[request_id] = NoRequest], "not_called")

\* ------------------------------------------------------------------------
\* Initial state: handler of initialize.rs for each vault and
\* handler_init_arcium_config; no deposit, nullifier or request yet.
\* ------------------------------------------------------------------------
InitVault(asset_mint) ==
    [vault_type |-> VaultTypeOf(asset_mint), asset_mint |-> asset_mint,
     nonce |-> 0, total_deposited |-> ToU64(0)]

InitArciumConfig ==
    [request_counter |-> 0, timeout_seconds |-> TimeoutSeconds, swaps_enabled |-> TRUE,
     min_amount |-> 1000, max_amount |-> 1000000000]

Init ==
    /\ vault = [v \in Vaults |-> InitVault(v)]
    /\ merkle_tree = [v \in Vaults |-> EmptyTree]
    /\ nullifier_account = [v \in Vaults |-> [n \in Nullifiers |-> NoNullifier]]
    /\ lamports = [treasury |-> [v \in Vaults |-> 0], recipient |-> 0,
                   depositor |-> DepositorFunds]
    /\ tokens = [vault_token_account |-> [v \in Vaults |-> 0], recipient |-> 0,
                 depositor |-> DepositorFunds]
    /\ config = InitArciumConfig
    /\ computation_request = [r \in RequestIds |-> NoRequest]
    /\ now = 0
    /\ root_log = <<>>
    /\ consumed = [v \in Vaults |-> [n \in Nullifiers |-> [spends |-> 0, completions |-> 0]]]
    /\ calls = <<>>
    /\ enc_vault = <<>>
    /\ computation = <<>>

\* ------------------------------------------------------------------------
\* Inputs of the instructions.  An input that an early check rejects is tried
\* with one choice of the inputs the handler then never reads.
\* ------------------------------------------------------------------------
Amounts == {0, 1000}

Precommitments == {<<5>>}

Requesters == {"alice"}

DirectRoute == [ok |-> FALSE, amount |-> 0]

WithdrawProofs(w, v, amount, nullifier, new_commitment) ==
    Proofs({WithdrawPublicInputs(w, v, amount, nullifier, new_commitment, r) :
                r \in KnownRoots(w.merkle_tree[v])})

SwapProofs(w, v, amount_in, nullifier, new_commitment) ==
    Proofs({SwapPublicInputs(amount_in, w.merkle_tree[v].root, new_commitment, nullifier)})

CrossSwapProofs(w, src, swap_param, nullifier, new_commitment) ==
    Proofs({CrossSwapPublicInputs(w.merkle_tree[src].root, nullifier, swap_param.src_token,
                                  swap_param.dst_token, new_commitment, 0)})

WithdrawInputs(w, v) ==
    {[amount |-> 0, nullifier |-> n, new_commitment |-> Zero, proof |-> ForgedProof] :
        n \in Nullifiers}
    \cup UNION {{[amount |-> 1000, nullifier |-> n, new_commitment |-> c, proof |-> p] :
                    p \in WithdrawProofs(w, v, 1000, n, c)} :
                n \in Nullifiers, c \in Commitments}

SwapParam(src_token, dst_token, amount_in) ==
    [src_token |-> src_token, dst_token |-> dst_token, amount_in |-> amount_in]

\* The routes that matter to a swap: none for a direct transfer.
RoutesFor(src_token, dst_token) ==
    IF src_token = dst_token THEN {DirectRoute} ELSE JupiterRoutes

SwapInputs(w, v) ==
    {[swap_param |-> SwapParam(v, v, 0), nullifier |-> n, new_commitment |-> Zero,
      proof |-> ForgedProof, swap_data |-> DirectRoute] : n \in Nullifiers}
    \cup UNION {{[swap_param |-> SwapParam(v, dst, 1000), nullifier |-> n, new_commitment |-> c,
                  proof |-> p, swap_data |-> sd] :
                    p \in SwapProofs(w, v, 1000, n, c), sd \in RoutesFor(v, dst)} :
                n \in Nullifiers, c \in Commitments, dst \in Vaults}

CrossSwapInputs(w, src, dst) ==
    {[swap_param |-> sp, nullifier |-> n, new_commitment |-> Zero,
      proof |-> ForgedProof, swap_data |-> DirectRoute] :
        n \in DOMAIN w.nullifier_account[src],
        sp \in {SwapParam(src, dst, 0), SwapParam(dst, src, 1000)}}
    \cup (IF src = dst THEN {}
          ELSE UNION {{[swap_param |-> SwapParam(src, dst, 1000), nullifier |-> n,
                        new_commitment |-> c, proof |-> p, swap_data |-> sd] :
                          p \in CrossSwapProofs(w, src, SwapParam(src, dst, 1000), n, c),
                          sd \in JupiterRoutes} :
                      n \in Nullifiers, c \in Commitments})

QueueParam(src_token, dst_token, amount, nullifier, new_commitment) ==
    [src_token |-> src_token, dst_token |-> dst_token, amount |-> amount,
     nullifier |-> nullifier, new_commitment |-> new_commitment]

QueueInputs(v) ==
    {[params |-> QueueParam(v, v, 0, n, Zero), proof |-> ForgedProof] : n \in Nullifiers}
    \cup {[params |-> QueueParam(src, src, 1000, n, Zero), proof |-> ForgedProof] :
            n \in Nullifiers, src \in Vaults \ {v}}
    \cup {[params |-> QueueParam(v, v, 1000, n, Zero), proof |-> EmptyProof] : n \in Nullifiers}
    \cup {[params |-> QueueParam(v, dst, 1000, n, c), proof |-> ForgedProof] :
            n \in Nullifiers, dst \in Vaults, c \in Commitments}

CallbackInputs(w, request_id) ==
    {[signer |-> "mallory", success |-> TRUE, jupiter_program |-> JUPITER_V6_PROGRAM_ID,
      swap_data |-> DirectRoute],
     [signer |-> ARCIUM_MXE_PROGRAM_ID, success |-> FALSE,
      jupiter_program |-> JUPITER_V6_PROGRAM_ID, swap_data |-> DirectRoute],
     [signer |-> ARCIUM_MXE_PROGRAM_ID, success |-> TRUE,
      jupiter_program |-> "other_program", swap_data |-> DirectRoute]}
    \cup {[signer |-> ARCIUM_MXE_PROGRAM_ID, success |-> TRUE,
           jupiter_program |-> JUPITER_V6_PROGRAM_ID, swap_data |-> sd] :
            sd \in RoutesFor(w.computation_request[request_id].src_token,
                             w.computation_request[request_id].dst_token)}

\* ------------------------------------------------------------------------
\* A transaction that returned Ok commits the accounts the handler leaves; one
\* that returned an error leaves every account as it was and is no step of
\* the program (each action below is guarded by r.err = "Ok").  consumed
\* counts per (vault, nullifier) the successful instructions that mark the
\* nullifier spent and the successful callbacks that complete a request bound
\* to it.
\* ------------------------------------------------------------------------
\* The instructions that write spent = true into a nullifier record.
ConsumingOps ==
    {"withdraw_native", "withdraw_token", "swap_native", "swap_token",
     "cross_token_swap", "queue_confidential_swap"}

Transaction(r, op, v, nullifier) ==
    /\ vault' = r.w.vault
    /\ merkle_tree' = r.w.merkle_tree
    /\ nullifier_account' = r.w.nullifier_account
    /\ lamports' = r.w.lamports
    /\ tokens' = r.w.tokens
    /\ config' = r.w.config
    /\ computation_request' = r.w.computation_request
    /\ consumed' = IF op \in ConsumingOps
                   THEN [consumed EXCEPT ![v][nullifier].spends = @ + 1]
                   ELSE IF op = "confidential_swap_callback_success"
                   THEN [consumed EXCEPT ![v][nullifier].completions = @ + 1]
                   ELSE consumed
    /\ UNCHANGED <<now, root_log, calls, enc_vault, computation>>

DepositNative ==
    \E v \in Vaults, amount \in Amounts, precommitment \in Precommitments :
        LET r == deposit_handler_native(World, v, amount, precommitment)
        IN /\ r.err = "Ok"
           /\ Transaction(r, "deposit_native", v, 0)

DepositToken ==
    \E v \in Vaults, amount \in Amounts, precommitment \in Precommitments :
        LET r == deposit_handler_token(World, v, amount, precommitment)
        IN /\ r.err = "Ok"
           /\ Transaction(r, "deposit_token", v, 0)

WithdrawNative ==
    \E v \in Vaults : \E i \in WithdrawInputs(World, v) :
        LET r == withdraw_handler_native(World, v, i.amount, i.nullifier, i.new_commitment,
                                         i.proof)
        IN /\ r.err = "Ok"
           /\ Transaction(r, "withdraw_native", v, i.nullifier)

WithdrawToken ==
    \E v \in Vaults : \E i \in WithdrawInputs(World, v) :
        LET r == withdraw_handler_token(World, v, i.amount, i.nullifier, i.new_commitment,
                                        i.proof)
        IN /\ r.err = "Ok"
           /\ Transaction(r, "withdraw_token", v, i.nullifier)

SwapNative ==
    \E v \in Vaults : \E i \in SwapInputs(World, v) :
        LET r == swap_handler_native(World, v, i.swap_param, i.nullifier, i.new_commitment,
                                     i.proof, i.swap_data)
        IN /\ r.err = "Ok"
           /\ Transaction(r, "swap_native", v, i.nullifier)

SwapToken ==
    \E v \in Vaults : \E i \in SwapInputs(World, v) :
        LET r == swap_handler_token(World, v, i.swap_param, i.nullifier, i.new_commitment,
                                    i.proof, i.swap_data)
        IN /\ r.err = "Ok"
           /\ Transaction(r, "swap_token", v, i.nullifier)

CrossTokenSwap ==
    \E pair \in Vaults \X Vaults : \E i \in CrossSwapInputs(World, pair[1], pair[2]) :
        LET r == handler_cross_token(World, pair[1], pair[2], i.swap_param, i.nullifier,
                                     i.new_commitment, i.proof, i.swap_data)
        IN /\ r.err = "Ok"
           /\ Transaction(r, "cross_token_swap", pair[1], i.nullifier)

CreateNullifier ==
    \E v \in Vaults, nullifier \in Nullifiers :
        LET r == handler_create_nullifier(World, v, nullifier)
        IN /\ r.err = "Ok"
           /\ Transaction(r, "create_nullifier", v, nullifier)

QueueConfidentialSwap ==
    /\ config.request_counter < MaxRequests
    /\ \E user \in Requesters, v \in Vaults : \E i \in QueueInputs(v) :
        LET r == process_queue_confidential_swap(World, user, v, i.params, i.proof)
        IN /\ r.err = "Ok"
           /\ Transaction(r, "queue_confidential_swap", v, i.params.nullifier)

ConfidentialSwapCallback ==
    \E request_id \in RequestIds : \E i \in CallbackInputs(World, request_id) :
        LET r == handler_confidential_swap_callback(World, i.signer, request_id, i.success,
                     EncryptedResult, i.jupiter_program, i.swap_data)
        IN /\ r.err = "Ok"
           /\ Transaction(r, IF i.success THEN "confidential_swap_callback_success"
                             ELSE "confidential_swap_callback_failure",
                          computation_request[request_id].vault,
                          computation_request[request_id].nullifier)

CancelComputation ==
    \E user \in Users, request_id \in RequestIds :
        LET r == handler_cancel_computation(World, user, request_id)
        IN /\ r.err = "Ok"
           /\ Transaction(r, "cancel_computation", computation_request[request_id].vault, 0)

\* Clock::get()?.unix_timestamp advances between transactions.
Tick ==
    /\ now < MaxTime
    /\ now' = now + 1
    /\ UNCHANGED <<vault, merkle_tree, nullifier_account, lamports, tokens, config,
                   computation_request, root_log, consumed, calls, enc_vault, computation>>

Next ==
    \/ DepositNative
    \/ DepositToken
    \/ WithdrawNative
    \/ WithdrawToken
    \/ SwapNative
    \/ SwapToken
    \/ CrossTokenSwap
    \/ CreateNullifier
    \/ QueueConfidentialSwap
    \/ ConfidentialSwapCallback
    \/ CancelComputation
    \/ Tick

Spec == Init /\ [][Next]_vars

\* ------------------------------------------------------------------------
\* The tree engine alone: inserts into one tree up to its capacity.  The first
\* VariedPrefix leaves range over TreeLeaves, the later ones are FillLeaf.
\* root_log records the root each insert returned, oldest first.
\* ------------------------------------------------------------------------
TreeVault == "SOL"

TreeLeaves == {Zero, <<1>>, <<2>>}

FillLeaf == <<3>>

TreeInsert ==
    \E leaf \in (IF Len(merkle_tree[TreeVault].leaves) < VariedPrefix
                 THEN TreeLeaves ELSE {FillLeaf}) :
        LET r == insert(merkle_tree[TreeVault], leaf)
        IN /\ r.err = "Ok"
           /\ merkle_tree' = [merkle_tree EXCEPT ![TreeVault] = r.t]
           /\ root_log' = Append(root_log, r.root)
           /\ UNCHANGED <<vault, nullifier_account, lamports, tokens, config,
                          computation_request, now, consumed, calls, enc_vault,
                          computation>>

NextTree == TreeInsert

SpecTree == Init /\ [][NextTree]_vars

\* ------------------------------------------------------------------------
\* Deposits into vaults whose total_deposited is close to u64::MAX.  A vault
\* starts fresh, or as an earlier deposit of u64::MAX - headroom that has been
\* withdrawn in full left it: one leaf, nonce 1, that total, an empty custody.
\* ------------------------------------------------------------------------
PriorDepositLeaf == <<9>>

Headrooms == {0, 999, 1000, 1001}

\* How a vault starts: fresh, or used with the given headroom.
VaultStarts ==
    {[fresh |-> TRUE, headroom |-> 0]} \cup {[fresh |-> FALSE, headroom |-> h] : h \in Headrooms}

StartVault(asset_mint, start) ==
    IF start.fresh THEN [vault |-> InitVault(asset_mint), merkle_tree |-> EmptyTree]
    ELSE [vault |-> [InitVault(asset_mint) EXCEPT
                        !.nonce = 1,
                        !.total_deposited = [hi |-> U64_MAX.hi,
                                             lo |-> U64_MAX.lo - start.headroom]],
          merkle_tree |-> insert(EmptyTree, PriorDepositLeaf).t]

InitDeposit ==
    /\ \E start \in [Vaults -> VaultStarts] :
        /\ vault = [v \in Vaults |-> StartVault(v, start[v]).vault]
        /\ merkle_tree = [v \in Vaults |-> StartVault(v, start[v]).merkle_tree]
    /\ nullifier_account = [v \in Vaults |-> [n \in Nullifiers |-> NoNullifier]]
    /\ lamports = [treasury |-> [v \in Vaults |-> 0], recipient |-> 0,
                   depositor |-> DepositorFunds]
    /\ tokens = [vault_token_account |-> [v \in Vaults |-> 0], recipient |-> 0,
                 depositor |-> DepositorFunds]
    /\ config = InitArciumConfig
    /\ computation_request = [r \in RequestIds |-> NoRequest]
    /\ now = 0
    /\ root_log = <<>>
    /\ consumed = [v \in Vaults |-> [n \in Nullifiers |-> [spends |-> 0, completions |-> 0]]]
    /\ calls = <<>>
    /\ enc_vault = <<>>
    /\ computation = <<>>

NextDeposit ==
    \/ DepositNative
    \/ DepositToken
    \/ WithdrawNative
    \/ WithdrawToken

SpecDeposit == InitDeposit /\ [][NextDeposit]_vars

\* ------------------------------------------------------------------------
\* Two consuming calls in flight on nullifier accounts, step by step.  Of the
\* host only the atomicity of account creation is assumed: an instruction's
\* account validation and its handler body are separate steps.
\*   calls[c] is the call's instruction, vault, nullifier and position.
\* ------------------------------------------------------------------------
CallIds == {1, 2}

InitOps == {"withdraw_native", "swap_native"}

RaceOps == InitOps \cup {"queue_confidential_swap"}

\* The account right after `init` created it: allocated and zeroed, the
\* discriminator and the fields are written when the instruction completes.
ZeroedNullifier == [exists |-> TRUE, nullifier |-> 0, spent |-> FALSE, spent_at |-> 0, vault |-> "none"]

HasDiscriminator(account) == account.exists /\ account.vault # "none"

InitRace ==
    /\ vault = [v \in Vaults |-> InitVault(v)]
    /\ merkle_tree = [v \in Vaults |-> EmptyTree]
    /\ \E created \in SUBSET Vaults :
        nullifier_account =
            [v \in Vaults |-> [n \in Nullifiers |->
                IF v \in created
                THEN handler_create_nullifier(
                         [nullifier_account |-> [u \in Vaults |-> [m \in Nullifiers |-> NoNullifier]]],
                         v, n).w.nullifier_account[v][n]
                ELSE NoNullifier]]
    /\ lamports = [treasury |-> [v \in Vaults |-> 0], recipient |-> 0,
                   depositor |-> DepositorFunds]
    /\ tokens = [vault_token_account |-> [v \in Vaults |-> 0], recipient |-> 0,
                 depositor |-> DepositorFunds]
    /\ config = InitArciumConfig
    /\ computation_request = [r \in RequestIds |-> NoRequest]
    /\ now = 0
    /\ root_log = <<>>
    /\ consumed = [v \in Vaults |-> [n \in Nullifiers |-> [spends |-> 0, completions |-> 0]]]
    /\ \E ops \in [CallIds -> RaceOps], vs \in [CallIds -> Vaults], ns \in [CallIds -> Nullifiers] :
        calls = [c \in CallIds |->
                    [op |-> ops[c], vault |-> vs[c], nullifier |-> ns[c],
                     pc |-> "start", err |-> "none"]]
    /\ enc_vault = <<>>
    /\ computation = <<>>

RaceFrame ==
    UNCHANGED <<vault, merkle_tree, lamports, tokens, config, computation_request, now,
                root_log, consumed, enc_vault, computation>>

\* Account validation of WithdrawNative / SwapNative: `init` creates the
\* nullifier account, and fails when it exists.
RaceInitAccount ==
    \E c \in DOMAIN calls :
        LET call == calls[c]
        IN /\ call.pc = "start"
           /\ call.op \in InitOps
           /\ IF nullifier_account[call.vault][call.nullifier].exists
              THEN /\ calls' = [calls EXCEPT ![c].pc = "failed", ![c].err = "AccountAlreadyInUse"]
                   /\ UNCHANGED nullifier_account
              ELSE /\ calls' = [calls EXCEPT ![c].pc = "validated"]
                   /\ nullifier_account' =
                        [nullifier_account EXCEPT ![call.vault][call.nullifier] = ZeroedNullifier]
           /\ RaceFrame

\* Account validation of QueueConfidentialSwap: the account is loaded and the
\* constraint reads its spent flag.
RaceReadSpent ==
    \E c \in DOMAIN calls :
        LET call == calls[c]
            account == nullifier_account[call.vault][call.nullifier]
        IN /\ call.pc = "start"
           /\ call.op = "queue_confidential_swap"
           /\ calls' = IF ~account.exists
                       THEN [calls EXCEPT ![c].pc = "failed", ![c].err = "AccountNotInitialized"]
                       ELSE IF ~HasDiscriminator(account)
                       THEN [calls EXCEPT ![c].pc = "failed",
                                          ![c].err = "AccountDiscriminatorMismatch"]
                       ELSE IF ~(~account.spent)
                       THEN [calls EXCEPT ![c].pc = "failed", ![c].err = "NullifierAlreadySpent"]
                       ELSE [calls EXCEPT ![c].pc = "validated"]
           /\ UNCHANGED nullifier_account
           /\ RaceFrame

\* The handler body of a validated call marks the nullifier as spent.
RaceMarkSpent ==
    \E c \in DOMAIN calls :
        LET call == calls[c]
        IN /\ call.pc = "validated"
           /\ nullifier_account' =
                spend_nullifier(World, call.vault, call.nullifier).nullifier_account
           /\ calls' = [calls EXCEPT ![c].pc = "ok", ![c].err = "Ok"]
           /\ RaceFrame

NextRace ==
    \/ RaceInitAccount
    \/ RaceReadSpent
    \/ RaceMarkSpent

SpecRace == InitRace /\ [][NextRace]_vars

\* ------------------------------------------------------------------------
\* Encrypted vaults (lib.rs, Arcium MXE instructions).  enc_vault[m] is the
\* EncryptedVaultAccount of token mint m; computation[o] is the definition
\* the computation account at offset o was queued for, "none" if not queued.
\* ------------------------------------------------------------------------
ComputationOffsets == {1, 2, 3}

ZeroCiphertexts == <<0, 0, 0>>

Ciphertexts == {<<11, 12, 13>>, <<21, 22, 23>>}

CreationNonces == {1}

OutputNonces == {2, 3}

NoEncVault == [exists |-> FALSE, token_mint |-> "none", nonce |-> 0, encrypted_state |-> ZeroCiphertexts]

EncWorld == [enc_vault |-> enc_vault, computation |-> computation]

EncRes(err, e) == [err |-> err, e |-> e]

\* What the cluster hands to a callback: the output of the computation at
\* computation_offset, signed by the cluster or not.
Outputs ==
    [computation_offset : ComputationOffsets, signed : BOOLEAN,
     ciphertexts : Ciphertexts, nonce : OutputNonces]

\* SignedComputationOutputs::verify_output against the cluster and the
\* computation account of the callback's computation definition.
verify_output(e, output, encrypted_ix) ==
    output.signed /\ e.computation[output.computation_offset] = encrypted_ix

queue_computation(e, computation_offset, encrypted_ix) ==
    IF e.computation[computation_offset] # "none" THEN EncRes("AccountAlreadyInUse", e)
    ELSE EncRes("Ok", [e EXCEPT !.computation[computation_offset] = encrypted_ix])

create_encrypted_vault(e, token_mint, computation_offset, nonce) ==
    IF e.enc_vault[token_mint].exists THEN EncRes("AccountAlreadyInUse", e)
    ELSE LET e1 == [e EXCEPT !.enc_vault[token_mint] =
                        [exists |-> TRUE, token_mint |-> token_mint, nonce |-> nonce,
                         encrypted_state |-> ZeroCiphertexts]]
         IN queue_computation(e1, computation_offset, "init_vault")

init_vault_callback(e, vault_key, output) ==
    IF ~e.enc_vault[vault_key].exists THEN EncRes("AccountNotInitialized", e)
    ELSE IF ~verify_output(e, output, "init_vault") THEN EncRes("AbortedComputation", e)
    ELSE EncRes("Ok", [e EXCEPT !.enc_vault[vault_key].encrypted_state = output.ciphertexts,
                                !.enc_vault[vault_key].nonce = output.nonce])

queue_encrypted_deposit(e, vault_key, computation_offset) ==
    IF ~e.enc_vault[vault_key].exists THEN EncRes("AccountNotInitialized", e)
    ELSE queue_computation(e, computation_offset, "process_deposit")

\* Faulty variant of process_deposit_callback: the output is taken as it
\* comes, verify_output is not consulted.
process_deposit_callback_unverified(e, vault_key, output) ==
    IF ~e.enc_vault[vault_key].exists THEN EncRes("AccountNotInitialized", e)
    ELSE EncRes("Ok", [e EXCEPT !.enc_vault[vault_key].encrypted_state = output.ciphertexts,
                                !.enc_vault[vault_key].nonce = output.nonce])

process_deposit_callback(e, vault_key, output) ==
    IF ~e.enc_vault[vault_key].exists THEN EncRes("AccountNotInitialized", e)
    ELSE IF ~verify_output(e, output, "process_deposit") THEN EncRes("AbortedComputation", e)
    ELSE EncRes("Ok", [e EXCEPT !.enc_vault[vault_key].encrypted_state = output.ciphertexts,
                                !.enc_vault[vault_key].nonce = output.nonce])

mxe_queue_confidential_swap(e, vault_key, computation_offset) ==
    IF ~e.enc_vault[vault_key].exists THEN EncRes("AccountNotInitialized", e)
    ELSE queue_computation(e, computation_offset, "confidential_swap")

mxe_confidential_swap_callback(e, output) ==
    IF ~verify_output(e, output, "confidential_swap") THEN EncRes("AbortedComputation", e)
    ELSE EncRes("Ok", e)

InitEncrypted ==
    /\ vault = [v \in Vaults |-> InitVault(v)]
    /\ merkle_tree = [v \in Vaults |-> EmptyTree]
    /\ nullifier_account = [v \in Vaults |-> [n \in Nullifiers |-> NoNullifier]]
    /\ lamports = [treasury |-> [v \in Vaults |-> 0], recipient |-> 0,
                   depositor |-> DepositorFunds]
    /\ tokens = [vault_token_account |-> [v \in Vaults |-> 0], recipient |-> 0,
                 depositor |-> DepositorFunds]
    /\ config = InitArciumConfig
    /\ computation_request = [r \in RequestIds |-> NoRequest]
    /\ now = 0
    /\ root_log = <<>>
    /\ consumed = [v \in Vaults |-> [n \in Nullifiers |-> [spends |-> 0, completions |-> 0]]]
    /\ calls = <<>>
    /\ enc_vault = [m \in Vaults |-> NoEncVault]
    /\ computation = [o \in ComputationOffsets |-> "none"]

EncTransaction(r) ==
    /\ r.err = "Ok"
    /\ enc_vault' = r.e.enc_vault
    /\ computation' = r.e.computation
    /\ UNCHANGED <<vault, merkle_tree, nullifier_account, lamports, tokens, config,
                   computation_request, now, root_log, consumed, calls>>

\* Offsets a caller may try: every free one and, to be turned away, a taken one.
OffsetsFor(e) == {o \in ComputationOffsets : e.computation[o] = "none"}

CreateEncryptedVault ==
    \E m \in DOMAIN enc_vault : \E o \in OffsetsFor(EncWorld), nonce \in CreationNonces :
        EncTransaction(create_encrypted_vault(EncWorld, m, o, nonce))

InitVaultCallback ==
    \E m \in DOMAIN enc_vault : \E output \in Outputs :
        EncTransaction(init_vault_callback(EncWorld, m, output))

QueueEncryptedDeposit ==
    \E m \in DOMAIN enc_vault : \E o \in OffsetsFor(EncWorld) :
        EncTransaction(queue_encrypted_deposit(EncWorld, m, o))

ProcessDepositCallback ==
    \E m \in DOMAIN enc_vault : \E output \in Outputs :
        EncTransaction(process_deposit_callback(EncWorld, m, output))

MxeQueueConfidentialSwap ==
    \E m \in DOMAIN enc_vault : \E o \in OffsetsFor(EncWorld) :
        EncTransaction(mxe_queue_confidential_swap(EncWorld, m, o))

\* The callback writes no account: its step is visible only to the caller.
MxeConfidentialSwapCallback ==
    \E output \in Outputs :
        /\ EncTransaction(mxe_confidential_swap_callback(EncWorld, output))

NextEncrypted ==
    \/ CreateEncryptedVault
    \/ InitVaultCallback
    \/ QueueEncryptedDeposit
    \/ ProcessDepositCallback
    \/ MxeQueueConfidentialSwap
    \/ MxeConfidentialSwapCallback

SpecEncrypted == InitEncrypted /\ [][NextEncrypted]_vars

\* ------------------------------------------------------------------------
\* Callbacks on vaults whose tree is empty or at the leaf cap and whose
\* treasury is empty or funded: the states a request can meet when the
\* fabric answers (a treasury is a plain system account that any transfer
\* can fund, and withdrawals can empty it under a full tree).
\* ------------------------------------------------------------------------
\* The tree after k inserts of FillLeaf into the empty tree: insert number j
\* leaves the root of the first j leaves in roots[j % ROOT_HISTORY_SIZE].
FilledTree(k) ==
    LET leaves == [j \in 1..k |-> FillLeaf]
        Max(js) == CHOOSE j \in js : \A i \in js : i <= j
    IN [depth |-> update_depth(k), size |-> k,
        current_root_index |-> k % ROOT_HISTORY_SIZE,
        root |-> IF k = 0 THEN Zero ELSE compute_root(leaves),
        roots |-> [i \in 0..(ROOT_HISTORY_SIZE - 1) |->
                    LET js == {j \in 1..k : j % ROOT_HISTORY_SIZE = i}
                    IN IF js = {} THEN Zero
                       ELSE compute_root(SubSeq(leaves, 1, Max(js)))],
        leaves |-> leaves]

TreeStarts == {0, MAX_LEAVES}

TreasuryStarts == {0, 1000}

InitCallback ==
    /\ vault = [v \in Vaults |-> InitVault(v)]
    /\ \E leaves \in [Vaults -> TreeStarts] :
        merkle_tree = [v \in Vaults |-> FilledTree(leaves[v])]
    /\ nullifier_account = [v \in Vaults |-> [n \in Nullifiers |-> NoNullifier]]
    /\ \E funds \in [Vaults -> TreasuryStarts] :
        lamports = [treasury |-> funds, recipient |-> 0, depositor |-> DepositorFunds]
    /\ tokens = [vault_token_account |-> [v \in Vaults |-> 0], recipient |-> 0,
                 depositor |-> DepositorFunds]
    /\ config = InitArciumConfig
    /\ computation_request = [r \in RequestIds |-> NoRequest]
    /\ now = 0
    /\ root_log = <<>>
    /\ consumed = [v \in Vaults |-> [n \in Nullifiers |-> [spends |-> 0, completions |-> 0]]]
    /\ calls = <<>>
    /\ enc_vault = <<>>
    /\ computation = <<>>

NextCallback ==
    \/ CreateNullifier
    \/ QueueConfidentialSwap
    \/ ConfidentialSwapCallback
    \/ CancelComputation
    \/ Tick

SpecCallback == InitCallback /\ [][NextCallback]_vars

\* ------------------------------------------------------------------------
\* The life of a request with a clock that keeps advancing: requests are
\* queued up to MaxTime and the clock runs on until each of them has expired.
\* ------------------------------------------------------------------------
LiveHorizon == MaxTime + TimeoutSeconds + 1

QueueLive ==
    /\ now <= MaxTime
    /\ QueueConfidentialSwap

TickLive ==
    /\ now < LiveHorizon
    /\ now' = now + 1
    /\ UNCHANGED <<vault, merkle_tree, nullifier_account, lamports, tokens, config,
                   computation_request, root_log, consumed, calls, enc_vault, computation>>

NextLive ==
    \/ CreateNullifier
    \/ QueueLive
    \/ ConfidentialSwapCallback
    \/ CancelComputation
    \/ TickLive

\* Empty trees over funded treasuries, so that a callback can settle.
InitLive ==
    /\ InitCallback
    /\ \A v \in Vaults : merkle_tree[v].size = 0 /\ lamports.treasury[v] = 1000

\* Time keeps advancing and a cancel that stays possible is eventually made.
SpecLive ==
    InitLive /\ [][NextLive]_vars /\ WF_vars(TickLive) /\ WF_vars(CancelComputation)

\* ------------------------------------------------------------------------
\* Requests queued one after another: a request can be queued after an
\* earlier one was called back or cancelled.
\* ------------------------------------------------------------------------
RequestSlots == 0..(MaxRequests + 1)

QueueAnother ==
    /\ config.request_counter <= MaxRequests
    /\ \E user \in Requesters, v \in Vaults : \E i \in QueueInputs(v) :
        LET r == process_queue_confidential_swap(World, user, v, i.params, i.proof)
        IN /\ r.err = "Ok"
           /\ Transaction(r, "queue_confidential_swap", v, i.params.nullifier)

InitRequests ==
    /\ vault = [v \in Vaults |-> InitVault(v)]
    /\ merkle_tree = [v \in Vaults |-> EmptyTree]
    /\ nullifier_account = [v \in Vaults |-> [n \in Nullifiers |-> NoNullifier]]
    /\ lamports = [treasury |-> [v \in Vaults |-> 1000], recipient |-> 0,
                   depositor |-> DepositorFunds]
    /\ tokens = [vault_token_account |-> [v \in Vaults |-> 0], recipient |-> 0,
                 depositor |-> DepositorFunds]
    /\ config = InitArciumConfig
    /\ computation_request = [r \in RequestSlots |-> NoRequest]
    /\ now = 0
    /\ root_log = <<>>
    /\ consumed = [v \in Vaults |-> [n \in Nullifiers |-> [spends |-> 0, completions |-> 0]]]
    /\ calls = <<>>
    /\ enc_vault = <<>>
    /\ computation = <<>>

NextRequests ==
    \/ CreateNullifier
    \/ QueueAnother
    \/ ConfidentialSwapCallback
    \/ CancelComputation
    \/ Tick

SpecRequests == InitRequests /\ [][NextRequests]_vars

\* ------------------------------------------------------------------------
\* The native vault alone, under deposits, withdrawals, direct-transfer swaps
\* and direct-transfer callbacks (with the create_nullifier and queue a
\* callback needs), with a depositor who can pay for two deposits and two
\* nullifiers to spend.
\* ------------------------------------------------------------------------
CustodyNullifiers == {1, 2}

CustodyFunds == 2 * DepositorFunds

InitCustody ==
    /\ vault = [v \in Vaults |-> InitVault(v)]
    /\ merkle_tree = [v \in Vaults |-> EmptyTree]
    /\ nullifier_account = [v \in Vaults |-> [n \in CustodyNullifiers |-> NoNullifier]]
    /\ lamports = [treasury |-> [v \in Vaults |-> 0], recipient |-> 0,
                   depositor |-> CustodyFunds]
    /\ tokens = [vault_token_account |-> [v \in Vaults |-> 0], recipient |-> 0,
                 depositor |-> DepositorFunds]
    /\ config = InitArciumConfig
    /\ computation_request = [r \in RequestIds |-> NoRequest]
    /\ now = 0
    /\ root_log = <<>>
    /\ consumed = [v \in Vaults |-> [n \in CustodyNullifiers |-> [spends |-> 0, completions |-> 0]]]
    /\ calls = <<>>
    /\ enc_vault = <<>>
    /\ computation = <<>>

CustodyDeposit(amount) ==
    \E precommitment \in Precommitments :
        LET r == deposit_handler_native(World, NATIVE_MINT, amount, precommitment)
        IN /\ r.err = "Ok"
           /\ Transaction(r, "deposit_native", NATIVE_MINT, 0)

CustodyWithdraw(amount) ==
    \E n \in CustodyNullifiers, c \in Commitments :
        LET proof == HonestProof(WithdrawPublicInputs(World, NATIVE_MINT, amount, n, c,
                                                      merkle_tree[NATIVE_MINT].root))
            r == withdraw_handler_native(World, NATIVE_MINT, amount, n, c, proof)
        IN /\ r.err = "Ok"
           /\ Transaction(r, "withdraw_native", NATIVE_MINT, n)

CustodySwap(amount) ==
    \E n \in CustodyNullifiers, c \in Commitments :
        LET r == swap_handler_native(World, NATIVE_MINT, SwapParam(NATIVE_MINT, NATIVE_MINT, amount),
                                     n, c, ForgedProof, DirectRoute)
        IN /\ r.err = "Ok"
           /\ Transaction(r, "swap_native", NATIVE_MINT, n)

CustodyCreateNullifier ==
    \E n \in CustodyNullifiers :
        LET r == handler_create_nullifier(World, NATIVE_MINT, n)
        IN /\ r.err = "Ok"
           /\ Transaction(r, "create_nullifier", NATIVE_MINT, n)

CustodyQueue ==
    /\ config.request_counter < MaxRequests
    /\ \E user \in Requesters, n \in CustodyNullifiers, c \in Commitments, amount \in Amounts :
        LET r == process_queue_confidential_swap(World, user, NATIVE_MINT,
                     QueueParam(NATIVE_MINT, NATIVE_MINT, amount, n, c), ForgedProof)
        IN /\ r.err = "Ok"
           /\ Transaction(r, "queue_confidential_swap", NATIVE_MINT, n)

CustodyCallback(amount, success) ==
    \E request_id \in RequestIds :
        LET r == handler_confidential_swap_callback(World, ARCIUM_MXE_PROGRAM_ID, request_id,
                     success, EncryptedResult, JUPITER_V6_PROGRAM_ID, DirectRoute)
        IN /\ computation_request[request_id].amount = amount
           /\ r.err = "Ok"
           /\ Transaction(r, IF success THEN "confidential_swap_callback_success"
                             ELSE "confidential_swap_callback_failure",
                          NATIVE_MINT, computation_request[request_id].nullifier)

NextCustody ==
    \/ \E amount \in Amounts : CustodyDeposit(amount)
    \/ \E amount \in Amounts : CustodyWithdraw(amount)
    \/ \E amount \in Amounts : CustodySwap(amount)
    \/ CustodyCreateNullifier
    \/ CustodyQueue
    \/ \E amount \in Amounts, success \in BOOLEAN : CustodyCallback(amount, success)

SpecCustody == InitCustody /\ [][NextCustody]_vars

\* ========================================================================
\* Properties
\* ========================================================================

\* ------------------------------------------------------------------------
\* C1
\* ------------------------------------------------------------------------
\* Rejections of a nullifier whose record is already there (init) or is
\* already marked (the !spent constraint).
AlreadySpentErrors == {"AccountAlreadyInUse", "NullifierAlreadySpent"}

\* The errors of every consuming attempt on (v, nullifier) from the accounts w.
ConsumingAttemptErrors(w, v, nullifier) ==
    {withdraw_handler_native(w, v, i.amount, nullifier, i.new_commitment, i.proof).err :
        i \in WithdrawInputs(w, v)}
    \cup {withdraw_handler_token(w, v, i.amount, nullifier, i.new_commitment, i.proof).err :
        i \in WithdrawInputs(w, v)}
    \cup {swap_handler_native(w, v, i.swap_param, nullifier, i.new_commitment, i.proof,
                              i.swap_data).err : i \in SwapInputs(w, v)}
    \cup {swap_handler_token(w, v, i.swap_param, nullifier, i.new_commitment, i.proof,
                             i.swap_data).err : i \in SwapInputs(w, v)}
    \cup UNION {{handler_cross_token(w, v, dst, i.swap_param, nullifier, i.new_commitment,
                                     i.proof, i.swap_data).err :
                    i \in CrossSwapInputs(w, v, dst)} : dst \in Vaults}
    \cup UNION {{process_queue_confidential_swap(w, user, v,
                    [i.params EXCEPT !.nullifier = nullifier], i.proof).err :
                    i \in QueueInputs(v)} : user \in Users}

\* C1: for each (vault, nullifier) at most one call that marks the nullifier
\* spent has ever succeeded (and at most one callback has completed a request
\* bound to it), the nullifier is spent exactly when one has, and from then on
\* every consuming attempt with the pair, whatever its proof, is rejected as
\* already spent.
C1_AtMostOneConsumingCall ==
    \A v \in Vaults, n \in Nullifiers :
        /\ consumed[v][n].spends <= 1
        /\ consumed[v][n].completions <= consumed[v][n].spends
        /\ nullifier_account[v][n].spent <=> consumed[v][n].spends = 1
        /\ nullifier_account[v][n].spent
            => ConsumingAttemptErrors(World, v, n) \subseteq AlreadySpentErrors

\* A consuming call has spent the nullifier and paid the recipient; a
\* withdrawal with the same pair and a proof the verifier accepts is turned away.
C1_Witness ==
    \E v \in Vaults, n \in Nullifiers :
        /\ lamports.recipient >= 1000
        /\ nullifier_account[v][n].spent /\ consumed[v][n].spends = 1
        /\ \E i \in WithdrawInputs(World, v) :
            /\ i.nullifier = n
            /\ VerifierAccepts(i.proof, WithdrawPublicInputs(World, v, i.amount, n,
                                    i.new_commitment, merkle_tree[v].root))
            /\ withdraw_handler_native(World, v, i.amount, n, i.new_commitment, i.proof).err
                   \in AlreadySpentErrors

\* ------------------------------------------------------------------------
\* C2
\* ------------------------------------------------------------------------
\* The fold of spec section 4.1 computed from scratch: hash the level pairwise,
\* an unmatched last element with the zero sentinel, until one value is left.
RECURSIVE PairUp(_)
PairUp(level) ==
    IF level = <<>> THEN <<>>
    ELSE IF Len(level) = 1 THEN <<simple_hash(level[1], Zero)>>
    ELSE <<simple_hash(level[1], level[2])>> \o PairUp(SubSeq(level, 3, Len(level)))

RECURSIVE FoldFromScratch(_)
FoldFromScratch(level) ==
    LET up == PairUp(level)
    IN IF Len(up) = 1 THEN up[1] ELSE FoldFromScratch(up)

\* C2: after any sequence of successful inserts the stored root is the pairwise
\* fold of the leaf sequence computed from scratch, an unmatched last element
\* (a lone single leaf included) being paired with the zero sentinel.
C2_RootIsFoldOfLeaves ==
    \A v \in Vaults :
        merkle_tree[v].leaves # <<>>
            => merkle_tree[v].root = FoldFromScratch(merkle_tree[v].leaves)

\* Trees of one leaf, of an odd and of an even number of leaves at several levels.
C2_Witness ==
    /\ Len(merkle_tree[TreeVault].leaves) = 7
    /\ merkle_tree[TreeVault].root = FoldFromScratch(merkle_tree[TreeVault].leaves)
    /\ root_log[1] = simple_hash(merkle_tree[TreeVault].leaves[1], Zero)

\* ------------------------------------------------------------------------
\* C3
\* ------------------------------------------------------------------------
\* The positions in root_log of the last ROOT_HISTORY_SIZE inserts.
RootWindow ==
    {k \in 1..Len(root_log) : k > Len(root_log) - ROOT_HISTORY_SIZE}

\* C3: root_exists holds for the root of each of the last ROOT_HISTORY_SIZE
\* inserts, and fails for the zero sentinel and for the root of every older
\* insert that is not also the root of an insert in the window.
C3_RootHistoryWindow ==
    LET t == merkle_tree[TreeVault]
    IN /\ ~root_exists(t, Zero)
       /\ \A k \in RootWindow : root_exists(t, root_log[k])
       /\ \A k \in (1..Len(root_log)) \ RootWindow :
            (\A j \in RootWindow : root_log[j] # root_log[k])
                => ~root_exists(t, root_log[k])

\* The ring has wrapped: the first root is forgotten, the oldest of the window is not.
C3_Witness ==
    /\ Len(root_log) > ROOT_HISTORY_SIZE + 1
    /\ ~root_exists(merkle_tree[TreeVault], root_log[1])
    /\ root_exists(merkle_tree[TreeVault], root_log[Len(root_log) - ROOT_HISTORY_SIZE + 1])

\* ------------------------------------------------------------------------
\* C4
\* ------------------------------------------------------------------------
\* The checks of a withdrawal that come before the verifier is invoked.
WithdrawReachesVerifier(w, v, i, vault_type) ==
    /\ ~w.nullifier_account[v][i.nullifier].exists
    /\ i.amount > 0
    /\ w.vault[v].vault_type = vault_type

WithdrawProofRejected(w, v, i) ==
    ~VerifierAccepts(i.proof, WithdrawPublicInputs(w, v, i.amount, i.nullifier,
                                                   i.new_commitment, w.merkle_tree[v].root))

\* C4: a withdrawal (native or token) whose proof the verifier rejects for the
\* call's public inputs fails with InvalidZKProof once it reaches the verifier,
\* never succeeds, and leaves every account as it was.
C4_RejectedWithdrawChangesNothing ==
    \A v \in Vaults : \A i \in WithdrawInputs(World, v) :
        LET rn == withdraw_handler_native(World, v, i.amount, i.nullifier, i.new_commitment,
                                          i.proof)
            rt == withdraw_handler_token(World, v, i.amount, i.nullifier, i.new_commitment,
                                         i.proof)
        IN WithdrawProofRejected(World, v, i)
            => /\ rn.err # "Ok" /\ rn.w = World
               /\ rt.err # "Ok" /\ rt.w = World
               /\ WithdrawReachesVerifier(World, v, i, "Native")
                    => rn.err = "InvalidZKProof" /\ rn.verifier = "rejected"
               /\ WithdrawReachesVerifier(World, v, i, "Alternative")
                    => rt.err = "InvalidZKProof" /\ rt.verifier = "rejected"

\* The token vault holds a deposit: a forged proof and a proof of the previous
\* root are rejected where a proof of the current root withdraws.
C4_Witness ==
    \E v \in Vaults : \E i, j, k \in WithdrawInputs(World, v) :
        /\ tokens.vault_token_account[v] >= 1000
        /\ i.proof = ForgedProof /\ i.amount = 1000
        /\ withdraw_handler_token(World, v, i.amount, i.nullifier, i.new_commitment,
                                  i.proof).err = "InvalidZKProof"
        /\ j.proof.kind = "honest" /\ WithdrawProofRejected(World, v, j)
        /\ withdraw_handler_token(World, v, j.amount, j.nullifier, j.new_commitment,
                                  j.proof).err = "InvalidZKProof"
        /\ withdraw_handler_token(World, v, k.amount, k.nullifier, k.new_commitment,
                                  k.proof).err = "Ok"

\* ------------------------------------------------------------------------
\* C5
\* ------------------------------------------------------------------------
SwapProofRejected(w, v, i) ==
    ~VerifierAccepts(i.proof, SwapPublicInputs(i.swap_param.amount_in, w.merkle_tree[v].root,
                                               i.new_commitment, i.nullifier))

CrossSwapProofRejected(w, src, i) ==
    ~VerifierAccepts(i.proof, CrossSwapPublicInputs(w.merkle_tree[src].root, i.nullifier,
                                i.swap_param.src_token, i.swap_param.dst_token,
                                i.new_commitment, 0))

\* C5: a swap (native or token) or a cross-token swap whose proof the verifier
\* would reject for the call's public inputs does not succeed and changes no
\* account.
C5_SwapGatedByVerifier ==
    /\ \A v \in Vaults : \A i \in SwapInputs(World, v) :
        SwapProofRejected(World, v, i)
            => /\ swap_handler_native(World, v, i.swap_param, i.nullifier, i.new_commitment,
                                      i.proof, i.swap_data).err # "Ok"
               /\ swap_handler_token(World, v, i.swap_param, i.nullifier, i.new_commitment,
                                     i.proof, i.swap_data).err # "Ok"
    /\ \A src \in Vaults, dst \in Vaults : \A i \in CrossSwapInputs(World, src, dst) :
        CrossSwapProofRejected(World, src, i)
            => handler_cross_token(World, src, dst, i.swap_param, i.nullifier,
                                   i.new_commitment, i.proof, i.swap_data).err # "Ok"

\* ------------------------------------------------------------------------
\* C6
\* ------------------------------------------------------------------------
\* C6: a queue_confidential_swap that succeeds creates the request and
\* changes no nullifier record and no tree.
C6_QueueOnlyCreatesRequest ==
    \A user \in Requesters, v \in Vaults : \A i \in QueueInputs(v) :
        LET r == process_queue_confidential_swap(World, user, v, i.params, i.proof)
        IN r.err = "Ok"
            => /\ r.w.computation_request[config.request_counter].exists
               /\ r.w.nullifier_account = nullifier_account
               /\ r.w.merkle_tree = merkle_tree

\* ------------------------------------------------------------------------
\* C7
\* ------------------------------------------------------------------------
TerminalStatus == {"Completed", "Failed"}

CallbackErrors(w, request_id) ==
    {handler_confidential_swap_callback(w, i.signer, request_id, i.success, EncryptedResult,
                                        i.jupiter_program, i.swap_data).err :
        i \in {j \in CallbackInputs(w, request_id) : j.signer = ARCIUM_MXE_PROGRAM_ID}}

CancelErrors(w, request_id) ==
    {handler_cancel_computation(w, user, request_id).err : user \in Users}

\* C7: a request changes status only from Pending, and only to Completed or
\* Failed; once it is Completed or Failed no step changes the request, every
\* callback of the Arcium signer for it is rejected with
\* InvalidComputationStatus and every cancel is rejected.
C7_TerminalStatusIsFinal ==
    [][\A id \in RequestIds :
        /\ (computation_request[id].exists /\ computation_request'[id].exists
              /\ computation_request'[id].status # computation_request[id].status)
            => (computation_request[id].status = "Pending"
                  /\ computation_request'[id].status \in TerminalStatus)
        /\ (computation_request[id].exists /\ computation_request[id].status \in TerminalStatus)
            => computation_request'[id] = computation_request[id]
        /\ (computation_request'[id].exists /\ computation_request'[id].status \in TerminalStatus)
            => /\ CallbackErrors(World', id) = {"InvalidComputationStatus"}
               /\ "Ok" \notin CancelErrors(World', id)]_vars

\* A request has failed and time has passed its expiry, where a pending request
\* could be cancelled.
C7_Witness ==
    \E id \in RequestIds :
        /\ computation_request[id].exists
        /\ computation_request[id].status = "Failed"
        /\ now > computation_request[id].expires_at
        /\ CallbackErrors(World, id) = {"InvalidComputationStatus"}

\* ------------------------------------------------------------------------
\* C8
\* ------------------------------------------------------------------------
\* C8: cancel_computation by a caller succeeds exactly when the request is
\* there and Pending, the caller is the user who queued it and
\* now > expires_at; a cancel that fails leaves every account as it was.
C8_CancelIffExpiredPendingOwn ==
    \A user \in Users, id \in RequestIds :
        LET r == handler_cancel_computation(World, user, id)
            req == computation_request[id]
        IN /\ r.err = "Ok" <=> (/\ req.exists
                                /\ req.status = "Pending"
                                /\ req.user = user
                                /\ now > req.expires_at)
           /\ r.err # "Ok" => r.w = World

\* A pending request past its expiry: the requester's cancel succeeds, another
\* user's cancel is turned away.
C8_Witness ==
    \E id \in RequestIds :
        /\ computation_request[id].exists
        /\ computation_request[id].status = "Pending"
        /\ now > computation_request[id].expires_at
        /\ handler_cancel_computation(World, computation_request[id].user, id).err = "Ok"
        /\ \E user \in Users :
            handler_cancel_computation(World, user, id).err = "Unauthorized"

\* ------------------------------------------------------------------------
\* C9
\* ------------------------------------------------------------------------
ArciumCallbacks(w, request_id) ==
    {handler_confidential_swap_callback(w, i.signer, request_id, i.success, EncryptedResult,
                                        i.jupiter_program, i.swap_data) :
        i \in {j \in CallbackInputs(w, request_id) : j.signer = ARCIUM_MXE_PROGRAM_ID}}

\* C9: a request expires timeout_seconds after it was queued.  While it is
\* Pending, a callback at now > expires_at fails with ComputationExpired
\* whatever its success flag and leaves every account as it was, after which
\* the requester's cancel succeeds; a callback at now <= expires_at is not
\* rejected for expiry.
C9_ExpiredCallbackRejected ==
    \A id \in RequestIds :
        LET req == computation_request[id]
        IN req.exists
            => /\ req.expires_at = req.queued_at + config.timeout_seconds
               /\ (req.status = "Pending" /\ now > req.expires_at)
                    => /\ \A r \in ArciumCallbacks(World, id) :
                            r.err = "ComputationExpired" /\ r.w = World
                       /\ handler_cancel_computation(World, req.user, id).err = "Ok"
               /\ (req.status = "Pending" /\ now <= req.expires_at)
                    => \A r \in ArciumCallbacks(World, id) : r.err # "ComputationExpired"

\* A pending request one tick past its expiry, queued over a funded vault:
\* callbacks with either success flag are turned away as expired.
C9_Witness ==
    \E id \in RequestIds :
        /\ computation_request[id].exists
        /\ computation_request[id].status = "Pending"
        /\ now = computation_request[id].expires_at + 1
        /\ lamports.treasury[computation_request[id].src_token] >= computation_request[id].amount
        /\ {r.err : r \in ArciumCallbacks(World, id)} = {"ComputationExpired"}

\* ------------------------------------------------------------------------
\* C10
\* ------------------------------------------------------------------------
\* C10: a callback of the Arcium signer with success = false that is accepted
\* leaves the accounts as they were but for the request, which becomes Failed
\* with the result and the completion time recorded.
C10_FailedCallbackOnlyUpdatesRequest ==
    \A id \in RequestIds : \A i \in CallbackInputs(World, id) :
        LET r == handler_confidential_swap_callback(World, i.signer, id, i.success,
                        EncryptedResult, i.jupiter_program, i.swap_data)
        IN (~i.success /\ r.err = "Ok")
            => r.w = [World EXCEPT !.computation_request[id] =
                        [@ EXCEPT !.status = "Failed", !.result = EncryptedResult,
                                  !.completed_at = now]]

\* A failed callback has just been accepted (the request is Failed, completed
\* now) for a request over a vault that holds a deposit and a leaf.
C10_Witness ==
    \E id \in RequestIds :
        /\ computation_request[id].status = "Failed"
        /\ computation_request[id].completed_at = now
        /\ computation_request[id].new_commitment # Zero
        /\ merkle_tree[computation_request[id].src_token].size = 1
        /\ lamports.treasury[computation_request[id].src_token] >= computation_request[id].amount

ChangeCommitmentRule(w, w2, v, new_commitment) ==
    IF new_commitment # Zero
    THEN /\ w2.merkle_tree[v].leaves = Append(w.merkle_tree[v].leaves, new_commitment)
         /\ w2.merkle_tree[v].size = w.merkle_tree[v].size + 1
    ELSE w2.merkle_tree[v] = w.merkle_tree[v]

\* The rule for the withdraw handlers of contracts/solana/zyncx, with the root
\* of the extended sequence.
WithdrawFollowsRule ==
    \A v \in Vaults : \A i \in WithdrawInputs(World, v) :
        \A r \in {withdraw_handler_native(World, v, i.amount, i.nullifier, i.new_commitment,
                                          i.proof),
                   withdraw_handler_token(World, v, i.amount, i.nullifier, i.new_commitment,
                                         i.proof)} :
            r.err = "Ok"
                => /\ ChangeCommitmentRule(World, r.w, v, i.new_commitment)
                   /\ r.w.merkle_tree[v].leaves # <<>>
                        => r.w.merkle_tree[v].root = FoldFromScratch(r.w.merkle_tree[v].leaves)
                   /\ \A u \in Vaults \ {v} : r.w.merkle_tree[u] = merkle_tree[u]

\* The rule for the withdraw handlers of programs/zyncx.
ProgramsWithdrawFollowsRule ==
    \A v \in Vaults : \A i \in WithdrawInputs(World, v) :
        \A r \in {programs_withdraw_handler_native(World, v, i.amount, i.nullifier,
                                                   i.new_commitment, i.proof),
                   programs_withdraw_handler_token(World, v, i.amount, i.nullifier,
                                                  i.new_commitment, i.proof)} :
            r.err = "Ok" => ChangeCommitmentRule(World, r.w, v, i.new_commitment)

\* C12: a withdrawal that succeeds, in either withdraw.rs of the repository,
\* appends new_commitment as the one new leaf (size + 1, root the fold of the
\* extended sequence) when new_commitment is not the zero sentinel, and leaves
\* the leaves, size, root and root history as they were when it is.
C12_WithdrawInsertsIffNonZero ==
    WithdrawFollowsRule /\ ProgramsWithdrawFollowsRule

\* ------------------------------------------------------------------------
\* C13
\* ------------------------------------------------------------------------
\* The nullifier record a consuming instruction writes under vault v.
SpentRecord(w, v, nullifier) ==
    [exists |-> TRUE, nullifier |-> nullifier, spent |-> TRUE, spent_at |-> w.now, vault |-> v]

\* C13: a withdrawal of amount a that succeeds writes the nullifier's record
\* as spent under the vault and no other nullifier record, takes exactly a
\* from the vault's custody (the treasury's lamports for a native vault, the
\* vault's token account for a token vault) and adds exactly a to the
\* recipient; every other balance is as it was.
C13_WithdrawMovesExactlyAmount ==
    \A v \in Vaults : \A i \in WithdrawInputs(World, v) :
        LET rn == withdraw_handler_native(World, v, i.amount, i.nullifier, i.new_commitment,
                                          i.proof)
            rt == withdraw_handler_token(World, v, i.amount, i.nullifier, i.new_commitment,
                                         i.proof)
            spent == [nullifier_account EXCEPT ![v][i.nullifier] =
                         SpentRecord(World, v, i.nullifier)]
        IN /\ rn.err = "Ok"
                => /\ rn.w.nullifier_account = spent
                   /\ rn.w.lamports = [lamports EXCEPT !.treasury[v] = @ - i.amount,
                                                       !.recipient = @ + i.amount]
                   /\ rn.w.tokens = tokens
                   /\ lamports.treasury[v] >= i.amount
           /\ rt.err = "Ok"
                => /\ rt.w.nullifier_account = spent
                   /\ rt.w.tokens = [tokens EXCEPT !.vault_token_account[v] = @ - i.amount,
                                                   !.recipient = @ + i.amount]
                   /\ rt.w.lamports = lamports
                   /\ tokens.vault_token_account[v] >= i.amount

\* A full withdrawal from the token vault has happened: the deposit is the
\* tree's only leaf, the nullifier is spent, the custody is empty and the
\* recipient holds the amount.
C13_Witness ==
    \E v \in Vaults, n \in Nullifiers :
        /\ vault[v].total_deposited = ToU64(1000)
        /\ merkle_tree[v].size = 1
        /\ nullifier_account[v][n].spent /\ consumed[v][n].spends = 1
        /\ tokens.vault_token_account[v] = 0
        /\ tokens.recipient = 1000

\* ------------------------------------------------------------------------
\* C14
\* ------------------------------------------------------------------------
\* C14: a cross-token swap whose destination vault is its source vault fails
\* with SameVaultSwap in every state, whatever its other arguments and
\* whether or not its nullifier has a record already, and leaves every
\* account as it was.
C14_SameVaultSwapRejected ==
    \A v \in Vaults : \A i \in CrossSwapInputs(World, v, v) :
        LET r == handler_cross_token(World, v, v, i.swap_param, i.nullifier, i.new_commitment,
                                     i.proof, i.swap_data)
        IN r.err = "SameVaultSwap" /\ r.w = World

\* ------------------------------------------------------------------------
\* C15
\* ------------------------------------------------------------------------
\* C15: a cross-token swap that succeeds writes the nullifier's record under
\* the source vault and no other nullifier record, and appends new_commitment
\* to the destination vault's tree and to no other tree: the source vault's
\* tree and the destination vault's nullifier records are as they were.
C15_CrossSwapSourceNullifierDestinationLeaf ==
    \A src \in Vaults, dst \in Vaults : \A i \in CrossSwapInputs(World, src, dst) :
        LET r == handler_cross_token(World, src, dst, i.swap_param, i.nullifier,
                                     i.new_commitment, i.proof, i.swap_data)
        IN r.err = "Ok"
            => /\ src # dst
               /\ r.w.nullifier_account =
                    [nullifier_account EXCEPT ![src][i.nullifier] =
                        SpentRecord(World, src, i.nullifier)]
               /\ r.w.nullifier_account[dst] = nullifier_account[dst]
               /\ r.w.merkle_tree[dst].leaves = Append(merkle_tree[dst].leaves, i.new_commitment)
               /\ r.w.merkle_tree[dst].size = merkle_tree[dst].size + 1
               /\ \A v \in Vaults \ {dst} : r.w.merkle_tree[v] = merkle_tree[v]
               /\ r.w.merkle_tree[src] = merkle_tree[src]

\* A cross-token swap from the native vault has happened: the token vault's
\* tree has a leaf although nothing was deposited into it and it has no
\* nullifier record; the native vault's tree holds its deposit only and its
\* nullifier is spent.
C15_Witness ==
    \E n \in Nullifiers :
        /\ vault["USDC"].nonce = 0 /\ merkle_tree["USDC"].size = 1
        /\ merkle_tree["USDC"].leaves[1] # Zero
        /\ ~nullifier_account["USDC"][n].exists
        /\ vault["SOL"].nonce = 1 /\ merkle_tree["SOL"].size = 1
        /\ nullifier_account["SOL"][n].spent /\ consumed["SOL"][n].spends = 1

\* ------------------------------------------------------------------------
\* C16
\* ------------------------------------------------------------------------
\* C16: a swap (native or token) that succeeds follows the change-commitment
\* rule of the withdrawal on its vault's tree: a zero new_commitment leaves the
\* leaves, size, root and root history as they were, a non-zero one is
\* appended as the one new leaf.
C16_SwapInsertsIffNonZero ==
    \A v \in Vaults : \A i \in SwapInputs(World, v) :
        \A r \in {swap_handler_native(World, v, i.swap_param, i.nullifier, i.new_commitment,
                                       i.proof, i.swap_data),
                   swap_handler_token(World, v, i.swap_param, i.nullifier, i.new_commitment,
                                      i.proof, i.swap_data)} :
            r.err = "Ok" => ChangeCommitmentRule(World, r.w, v, i.new_commitment)

\* ------------------------------------------------------------------------
\* C17
\* ------------------------------------------------------------------------
\* What a successful deposit of amount into vault v leaves of the tree, the
\* vault and the nullifier records, r being the handler's outcome.
DepositEffects(r, v, amount, precommitment) ==
    /\ r.ret = poseidon_hash_commitment(amount, precommitment)
    /\ r.w.merkle_tree[v].leaves = Append(merkle_tree[v].leaves, r.ret)
    /\ r.w.merkle_tree[v].size = merkle_tree[v].size + 1
    /\ r.w.vault[v].nonce = vault[v].nonce + 1
    /\ (r.w.vault[v].total_deposited.hi - vault[v].total_deposited.hi) * U64_LIMB
         + r.w.vault[v].total_deposited.lo - vault[v].total_deposited.lo = amount
    /\ \A u \in Vaults \ {v} :
         r.w.vault[u] = vault[u] /\ r.w.merkle_tree[u] = merkle_tree[u]
    /\ r.w.nullifier_account = nullifier_account
    /\ r.w.computation_request = computation_request

\* C17: a deposit (native or token) of amount with precommitment that succeeds
\* appends the one leaf H(amount, precommitment) to the vault's tree and
\* returns it, moves exactly amount from the depositor to the vault's custody,
\* adds 1 to the vault's nonce and amount to its total_deposited, and creates
\* no nullifier record.
C17_DepositEffects ==
    \A v \in Vaults, amount \in Amounts, precommitment \in Precommitments :
        LET rn == deposit_handler_native(World, v, amount, precommitment)
            rt == deposit_handler_token(World, v, amount, precommitment)
        IN /\ rn.err = "Ok"
                => /\ DepositEffects(rn, v, amount, precommitment)
                   /\ rn.w.lamports = [lamports EXCEPT !.depositor = @ - amount,
                                                       !.treasury[v] = @ + amount]
                   /\ rn.w.tokens = tokens
           /\ rt.err = "Ok"
                => /\ DepositEffects(rt, v, amount, precommitment)
                   /\ rt.w.tokens = [tokens EXCEPT !.depositor = @ - amount,
                                                   !.vault_token_account[v] = @ + amount]
                   /\ rt.w.lamports = lamports

\* Both vaults hold one deposit: one leaf each, the commitment of the deposit,
\* the amount in custody, nonce 1, and no nullifier record anywhere.
C17_Witness ==
    /\ \A v \in Vaults :
        /\ merkle_tree[v].leaves = <<poseidon_hash_commitment(1000, <<5>>)>>
        /\ vault[v].nonce = 1 /\ vault[v].total_deposited = ToU64(1000)
        /\ \A n \in Nullifiers : ~nullifier_account[v][n].exists
    /\ lamports.treasury["SOL"] = 1000 /\ lamports.depositor = DepositorFunds - 1000
    /\ tokens.vault_token_account["USDC"] = 1000 /\ tokens.depositor = DepositorFunds - 1000

\* ------------------------------------------------------------------------
\* C18
\* ------------------------------------------------------------------------
\* C18: a deposit (native or token) of amount 0 fails with
\* InvalidDepositAmount, and a deposit of a positive amount into a vault of
\* the other kind (native into a token vault, token into a native vault)
\* fails with VaultNotFound; in both cases the handler has written nothing:
\* custody, tree, nonce and total_deposited are as they were.
C18_DepositInputErrors ==
    \A v \in Vaults, amount \in Amounts, precommitment \in Precommitments :
        LET rn == deposit_handler_native(World, v, amount, precommitment)
            rt == deposit_handler_token(World, v, amount, precommitment)
        IN /\ amount = 0
                => /\ rn.err = "InvalidDepositAmount" /\ rn.w = World
                   /\ rt.err = "InvalidDepositAmount" /\ rt.w = World
           /\ (amount > 0 /\ vault[v].vault_type # "Native")
                => rn.err = "VaultNotFound" /\ rn.w = World
           /\ (amount > 0 /\ vault[v].vault_type # "Alternative")
                => rt.err = "VaultNotFound" /\ rt.w = World

\* The native vault holds a deposit and the depositor still has tokens: a
\* token deposit of 0 and a token deposit into the native vault are turned
\* away where a token deposit into the token vault goes through.
C18_Witness ==
    \E precommitment \in Precommitments :
        /\ vault["SOL"].nonce = 1 /\ lamports.treasury["SOL"] = 1000
        /\ tokens.depositor >= 1000
        /\ deposit_handler_token(World, "USDC", 0, precommitment).err = "InvalidDepositAmount"
        /\ deposit_handler_token(World, "SOL", 1000, precommitment).err = "VaultNotFound"
        /\ deposit_handler_native(World, "USDC", 1000, precommitment).err = "VaultNotFound"
        /\ deposit_handler_token(World, "USDC", 1000, precommitment).err = "Ok"

\* ------------------------------------------------------------------------
\* C19
\* ------------------------------------------------------------------------
\* What the host keeps of a transaction: the accounts the handler left when
\* it returned Ok, the accounts as they were when it returned an error.
Commit(w, r) == IF r.err = "Ok" THEN r.w ELSE w

\* amount does not fit into what is left of the u64 total.
WouldOverflow(total, amount) ==
    /\ U64_MAX.hi - total.hi <= 1
    /\ (U64_MAX.hi - total.hi) * U64_LIMB + U64_MAX.lo - total.lo < amount

\* C19: a deposit (native or token) that passes its input checks, is funded
\* and finds room in the tree, and whose amount would take total_deposited
\* above u64::MAX, fails with ArithmeticOverflow after the handler has moved
\* the value and inserted the leaf, and the transaction keeps none of it:
\* total_deposited, nonce, tree and custody are as they were.  When the amount
\* fits the deposit succeeds and total_deposited has grown by exactly amount.
C19_DepositOverflowRejected ==
    \A v \in Vaults, amount \in Amounts \ {0}, precommitment \in Precommitments :
        LET rn == deposit_handler_native(World, v, amount, precommitment)
            rt == deposit_handler_token(World, v, amount, precommitment)
            total == vault[v].total_deposited
            room == merkle_tree[v].depth < MAX_DEPTH /\ merkle_tree[v].size < MAX_LEAVES
            Settled(r) ==
                IF WouldOverflow(total, amount)
                THEN /\ r.err = "ArithmeticOverflow"
                     /\ r.w # World
                     /\ Commit(World, r) = World
                ELSE /\ r.err = "Ok"
                     /\ (r.w.vault[v].total_deposited.hi - total.hi) * U64_LIMB
                          + r.w.vault[v].total_deposited.lo - total.lo = amount
                     /\ u64_le(r.w.vault[v].total_deposited, U64_MAX)
        IN /\ (vault[v].vault_type = "Native" /\ lamports.depositor >= amount /\ room)
                => Settled(rn)
           /\ (vault[v].vault_type = "Alternative" /\ tokens.depositor >= amount /\ room)
                => Settled(rt)

\* The native vault, used before, has taken a deposit that fitted.  The token
\* vault is 999 units short of u64::MAX and the depositor holds 1000: the
\* deposit of 1000 fails with ArithmeticOverflow, having written the leaf and
\* the transfer.
C19_Witness ==
    \E precommitment \in Precommitments :
        LET r == deposit_handler_token(World, "USDC", 1000, precommitment)
        IN /\ lamports.treasury["SOL"] = 1000 /\ vault["SOL"].nonce = 2
           /\ vault["USDC"].nonce = 1
           /\ vault["USDC"].total_deposited = [hi |-> U64_MAX.hi, lo |-> U64_MAX.lo - 999]
           /\ tokens.depositor >= 1000
           /\ r.err = "ArithmeticOverflow"
           /\ r.w.merkle_tree["USDC"].size = 2
           /\ r.w.tokens.vault_token_account["USDC"] = 1000

\* ------------------------------------------------------------------------
\* C20
\* ------------------------------------------------------------------------
\* C20: size is the number of stored leaves and is at most MAX_LEAVES; an
\* insert into a tree that holds MAX_LEAVES leaves fails with MaxDepthReached
\* (the code's capacity error) and leaves the leaves, size, depth, root,
\* current_root_index and roots as they were; an insert into a tree with fewer
\* leaves succeeds.
C20_InsertRespectsLeafCap ==
    LET t == merkle_tree[TreeVault]
    IN /\ t.size = Len(t.leaves)
       /\ t.size <= MAX_LEAVES
       /\ \A leaf \in TreeLeaves \cup {FillLeaf} :
            IF t.size = MAX_LEAVES
            THEN insert(t, leaf).err = "MaxDepthReached" /\ insert(t, leaf).t = t
            ELSE insert(t, leaf).err = "Ok"

\* The tree is full: MAX_LEAVES inserts have succeeded and the next is refused.
C20_Witness ==
    /\ Len(root_log) = MAX_LEAVES
    /\ merkle_tree[TreeVault].size = MAX_LEAVES
    /\ insert(merkle_tree[TreeVault], FillLeaf).err = "MaxDepthReached"

\* ------------------------------------------------------------------------
\* C21
\* ------------------------------------------------------------------------
\* The least k with 2^k >= n, for n >= 1.
RECURSIVE CeilLog2From(_, _)
CeilLog2From(n, k) == IF 2^k >= n THEN k ELSE CeilLog2From(n, k + 1)

\* C21: in every state of the tree the stored depth is ceil(log2(size)), and
\* 0 when size <= 1.
C21_DepthIsCeilLog2 ==
    LET t == merkle_tree[TreeVault]
    IN t.depth = IF t.size <= 1 THEN 0 ELSE CeilLog2From(t.size, 0)

\* Sizes just past a power of two and at the cap have been passed.
C21_Witness ==
    /\ merkle_tree[TreeVault].size = MAX_LEAVES
    /\ merkle_tree[TreeVault].depth = 7
    /\ update_depth(64) = 6 /\ update_depth(65) = 7 /\ update_depth(1) = 0


\* C22
\* The withdraw handler of the vault's kind, as the program dispatches it.
withdraw_of_kind(w, v, amount, nullifier, new_commitment, proof) ==
    IF w.vault[v].vault_type = "Native"
    THEN withdraw_handler_native(w, v, amount, nullifier, new_commitment, proof)
    ELSE withdraw_handler_token(w, v, amount, nullifier, new_commitment, proof)

CustodyBalance(w, v) ==
    IF w.vault[v].vault_type = "Native" THEN w.lamports.treasury[v]
    ELSE w.tokens.vault_token_account[v]

\* C22: a Withdraw whose proof the verifier accepts and whose amount exceeds
\* the vault's custody balance fails with InsufficientFunds, and the accounts
\* after the failed transaction are the accounts before it.
C22_OverdrawFailsInsufficientFunds ==
    \A v \in Vaults : \A i \in WithdrawInputs(World, v) :
        LET r == withdraw_of_kind(World, v, i.amount, i.nullifier, i.new_commitment, i.proof)
        IN (r.verifier = "accepted" /\ i.amount > CustodyBalance(World, v))
               => /\ r.err = "InsufficientFunds"
                  /\ Commit(World, r) = World


\* C23: after a successful cancel the request is still recorded, with status
\* Cancelled, and no custody or recipient balance has changed.
C23_CancelLeavesCancelledRecord ==
    \A user \in Users, id \in RequestIds :
        LET r == handler_cancel_computation(World, user, id)
        IN r.err = "Ok"
               => /\ r.w.computation_request[id].exists
                  /\ r.w.computation_request[id].status = "Cancelled"
                  /\ r.w.lamports = lamports
                  /\ r.w.tokens = tokens


\* C24
\* Signers other than the configured compute fabric.
OtherSigners == Users \cup {"mallory"}

\* C24: a callback whose signer is not ARCIUM_MXE_PROGRAM_ID is rejected for
\* either value of the success flag, and the accounts after it (requests,
\* trees, nullifier accounts, custody) are the accounts before it.
C24_UnauthenticatedCallbackRejected ==
    \A id \in RequestIds, signer \in OtherSigners, success \in BOOLEAN :
        \A sd \in RoutesFor(computation_request[id].src_token, computation_request[id].dst_token) :
            LET r == handler_confidential_swap_callback(World, signer, id, success,
                         EncryptedResult, JUPITER_V6_PROGRAM_ID, sd)
            IN /\ r.err # "Ok"
               /\ r.w = World
               /\ Commit(World, r) = World

\* A pending, unexpired request that the fabric's callback would settle with
\* either flag, while the same callbacks signed by someone else are rejected.
C24_Witness ==
    \E id \in RequestIds :
        /\ computation_request[id].exists
        /\ computation_request[id].status = "Pending"
        /\ now <= computation_request[id].expires_at
        /\ \A success \in BOOLEAN :
            /\ handler_confidential_swap_callback(World, ARCIUM_MXE_PROGRAM_ID, id, success,
                   EncryptedResult, JUPITER_V6_PROGRAM_ID, DirectRoute).err = "Ok"
            /\ handler_confidential_swap_callback(World, "mallory", id, success,
                   EncryptedResult, JUPITER_V6_PROGRAM_ID, DirectRoute).err = "ConstraintAddress"


\* C25
\* The five public inputs listed for Withdraw, in the listed order.
FiveWithdrawInputs(root, nullifier, amount, new_commitment) ==
    <<root, nullifier, "recipient", amount, new_commitment>>

\* C25: Withdraw hands the verifier exactly root, nullifier, recipient, amount,
\* new_commitment, in that order, with root the tree's current root: the list
\* it builds is that list, and a proof of exactly that statement is accepted
\* by every withdrawal that reaches the verifier.
C25_WithdrawPassesFivePublicInputs ==
    \A v \in Vaults, nullifier \in Nullifiers, new_commitment \in Commitments :
        LET root == merkle_tree[v].root
            five == FiveWithdrawInputs(root, nullifier, 1000, new_commitment)
            r == withdraw_of_kind(World, v, 1000, nullifier, new_commitment, HonestProof(five))
        IN /\ WithdrawPublicInputs(World, v, 1000, nullifier, new_commitment, root) = five
           /\ r.verifier # "not_called" => r.verifier = "accepted"


C27_NullifierRecordIsPermanent ==
    [][\A v \in Vaults, n \in Nullifiers :
        /\ nullifier_account[v][n].exists => nullifier_account'[v][n].exists
        /\ nullifier_account[v][n].spent
            => /\ nullifier_account'[v][n].spent
               /\ nullifier_account'[v][n].spent_at = nullifier_account[v][n].spent_at
               /\ nullifier_account'[v][n].vault = nullifier_account[v][n].vault]_vars

\* A record spent at an earlier time is still there, under two vaults, and
\* a new create_nullifier for it is turned away.
C27_Witness ==
    /\ \A v \in Vaults : \E n \in Nullifiers :
        /\ nullifier_account[v][n].spent
        /\ nullifier_account[v][n].vault = v
        /\ handler_create_nullifier(World, v, n).err = "AccountAlreadyInUse"
    /\ \E v \in Vaults, n \in Nullifiers : nullifier_account[v][n].spent_at < now


\* C28
\* The step is a successful deposit (native or token) into vault v.
DepositInto(v) ==
    \E amount \in Amounts, precommitment \in Precommitments :
        \E r \in {deposit_handler_native(World, v, amount, precommitment),
                  deposit_handler_token(World, v, amount, precommitment)} :
            /\ r.err = "Ok"
            /\ Transaction(r, "deposit", v, 0)

\* C28: in every step each vault keeps its kind and its asset, and its nonce
\* goes up by one if the step is a successful deposit into that vault and
\* stays as it is in every other step; starting from 0, the nonce is the
\* number of successful deposits into the vault.
C28_NonceCountsDeposits ==
    [][\A v \in Vaults :
        /\ vault'[v].vault_type = vault[v].vault_type
        /\ vault'[v].asset_mint = vault[v].asset_mint
        /\ vault'[v].nonce = IF DepositInto(v) THEN vault[v].nonce + 1
                             ELSE vault[v].nonce]_vars

\* One deposit went into the vault and another instruction has since added
\* a leaf to its tree and spent a nullifier under it: the nonce is still 1.
C28_Witness ==
    \E v \in Vaults, n \in Nullifiers :
        /\ vault[v].nonce = 1
        /\ merkle_tree[v].size = 2
        /\ nullifier_account[v][n].spent
        /\ vault[v].vault_type = VaultTypeOf(v)


\* C29
IsPrefix(s, t) == Len(s) <= Len(t) /\ SubSeq(t, 1, Len(s)) = s

\* C29: in every step of every instruction, each tree's leaves before the
\* step are a prefix of its leaves after it, and its size does not decrease.
C29_TreeIsAppendOnly ==
    [][\A v \in Vaults :
        /\ IsPrefix(merkle_tree[v].leaves, merkle_tree'[v].leaves)
        /\ merkle_tree'[v].size >= merkle_tree[v].size]_vars

\* A tree that grew twice, by different leaves.
C29_Witness ==
    \E v \in Vaults :
        /\ merkle_tree[v].size >= 2
        /\ Len(merkle_tree[v].leaves) = merkle_tree[v].size
        /\ merkle_tree[v].leaves[1] # merkle_tree[v].leaves[2]


\* C30
\* The step is a successful withdrawal from vault a.
WithdrawFrom(a) ==
    \E i \in WithdrawInputs(World, a) :
        LET r == withdraw_of_kind(World, a, i.amount, i.nullifier, i.new_commitment, i.proof)
        IN /\ r.err = "Ok"
           /\ Transaction(r, "withdraw_native", a, i.nullifier)

\* The step is a successful swap_native or swap_token on vault a.
SwapOn(a) ==
    \E i \in SwapInputs(World, a) :
        \E r \in {swap_handler_native(World, a, i.swap_param, i.nullifier, i.new_commitment,
                                      i.proof, i.swap_data),
                  swap_handler_token(World, a, i.swap_param, i.nullifier, i.new_commitment,
                                     i.proof, i.swap_data)} :
            /\ r.err = "Ok"
            /\ Transaction(r, "swap_native", a, i.nullifier)

\* What a withdrawal from vault b answers to each of its inputs, in accounts w.
WithdrawAnswers(w, b) ==
    [i \in WithdrawInputs(w, b) |->
        withdraw_of_kind(w, b, i.amount, i.nullifier, i.new_commitment, i.proof).err]

\* C30: a step that is a successful deposit, withdrawal or swap on vault a
\* leaves, for every other vault b, b's tree, vault state (nonce and
\* total_deposited), custody and nullifier accounts as they were, and every
\* withdrawal from b is answered after the step as it was before it: spending
\* a nullifier under a does not stand in the way of spending it under b.
C30_VaultsAreIndependent ==
    [][\A a \in Vaults :
        (DepositInto(a) \/ WithdrawFrom(a) \/ SwapOn(a))
            => \A b \in Vaults \ {a} :
                /\ merkle_tree'[b] = merkle_tree[b]
                /\ vault'[b] = vault[b]
                /\ lamports'.treasury[b] = lamports.treasury[b]
                /\ tokens'.vault_token_account[b] = tokens.vault_token_account[b]
                /\ nullifier_account'[b] = nullifier_account[b]
                /\ WithdrawAnswers(World, b)' = WithdrawAnswers(World, b)]_vars

\* The same nullifier value has been consumed once under each vault.
C30_Witness ==
    \E n \in Nullifiers :
        \A v \in Vaults :
            /\ nullifier_account[v][n].spent
            /\ nullifier_account[v][n].vault = v
            /\ consumed[v][n].spends = 1


\* ------------------------------------------------------------------------
\* C31
\* ------------------------------------------------------------------------
\* instructions/verify.rs check_nullifier_spent: the nullifier's address is
\* derived and logged, no account is read, and the answer is Ok(false).
check_nullifier_spent(w, v, nullifier) == DepositRes("Ok", w, FALSE)

\* C31: the query answers true exactly when a nullifier account exists for
\* (vault, nullifier), false otherwise, and leaves every account as it was.
C31_QueryReportsConsumedNullifier ==
    \A v \in Vaults, n \in Nullifiers :
        LET r == check_nullifier_spent(World, v, n)
        IN /\ r.err = "Ok"
           /\ r.ret = nullifier_account[v][n].exists
           /\ r.w = World


\* ------------------------------------------------------------------------
\* C32
\* ------------------------------------------------------------------------
\* The ciphertext tuple and the re-encryption nonce of the vault of mint m.
EncryptedTuple(e, m) == <<e.enc_vault[m].encrypted_state, e.enc_vault[m].nonce>>

\* The existing vaults whose tuple differs between e and what r leaves.
TupleChanged(e, r) ==
    {m \in DOMAIN e.enc_vault :
        e.enc_vault[m].exists /\ EncryptedTuple(r.e, m) # EncryptedTuple(e, m)}

\* C32: once an encrypted vault exists, its ciphertexts and nonce are changed
\* by no create_encrypted_vault, queue_encrypted_deposit or
\* queue_confidential_swap, by no confidential_swap_callback, and by no
\* callback whose output fails verify_output (which fails as
\* AbortedComputation and writes nothing); an init_vault or process_deposit
\* callback that changes them carried an output that passed verification.
C32_EncryptedStateChangesOnlyInVerifiedCallback ==
    LET e == EncWorld
    IN /\ \A m \in DOMAIN enc_vault, o \in ComputationOffsets :
            /\ \A nonce \in CreationNonces :
                TupleChanged(e, create_encrypted_vault(e, m, o, nonce)) = {}
            /\ TupleChanged(e, queue_encrypted_deposit(e, m, o)) = {}
            /\ TupleChanged(e, mxe_queue_confidential_swap(e, m, o)) = {}
       /\ \A output \in Outputs :
            /\ mxe_confidential_swap_callback(e, output).e = e
            /\ \A m \in DOMAIN enc_vault :
                LET ri == init_vault_callback(e, m, output)
                    rp == process_deposit_callback(e, m, output)
                IN /\ TupleChanged(e, ri) # {}
                        => ri.err = "Ok" /\ verify_output(e, output, "init_vault")
                   /\ TupleChanged(e, rp) # {}
                        => rp.err = "Ok" /\ verify_output(e, output, "process_deposit")
                   /\ (e.enc_vault[m].exists /\ ~verify_output(e, output, "init_vault"))
                        => ri.err = "AbortedComputation" /\ ri.e = e
                   /\ (e.enc_vault[m].exists /\ ~verify_output(e, output, "process_deposit"))
                        => rp.err = "AbortedComputation" /\ rp.e = e

\* A vault whose state a verified callback has written, with a deposit
\* computation queued: the cluster's signed output for it would be applied,
\* the same output unsigned is turned away.
C32_Witness ==
    \E m \in DOMAIN enc_vault, output \in Outputs :
        /\ enc_vault[m].exists
        /\ enc_vault[m].encrypted_state # ZeroCiphertexts
        /\ computation[output.computation_offset] = "process_deposit"
        /\ output.signed
        /\ output.ciphertexts # enc_vault[m].encrypted_state
        /\ process_deposit_callback(EncWorld, m, output).err = "Ok"
        /\ process_deposit_callback(EncWorld, m, [output EXCEPT !.signed = FALSE]).err
               = "AbortedComputation"


\* ------------------------------------------------------------------------
\* C33
\* ------------------------------------------------------------------------
\* The insert or the value movement of a successful computation's callback
\* cannot go through: the tree is at the leaf cap, the treasury does not
\* cover a direct transfer, or the exchange call fails.
SettlementFails(w, req, i) ==
    \/ ~(Len(w.merkle_tree[req.src_token].leaves) < MAX_LEAVES)
    \/ /\ req.src_token = req.dst_token
       /\ w.lamports.treasury[req.src_token] < req.amount
    \/ /\ req.src_token # req.dst_token
       /\ \/ i.jupiter_program # JUPITER_V6_PROGRAM_ID
          \/ ~i.swap_data.ok
          \/ w.lamports.treasury[req.src_token] < i.swap_data.amount

\* C33: a callback of the fabric with success = true on a pending, unexpired
\* request whose insert or value movement fails ends in an error although
\* the handler had written status Completed; the transaction is rolled back,
\* so afterwards the request is Pending with no result and no completion
\* time, every other account is as before, a later callback is accepted and
\* the requester's cancel succeeds once the request has expired.
C33_FailedSettlementRollsBack ==
    \A id \in RequestIds : \A i \in CallbackInputs(World, id) :
        LET req == computation_request[id]
            r == handler_confidential_swap_callback(World, i.signer, id, i.success,
                     EncryptedResult, i.jupiter_program, i.swap_data)
            after == Commit(World, r)
        IN (/\ i.signer = ARCIUM_MXE_PROGRAM_ID /\ i.success
            /\ req.exists /\ req.status = "Pending" /\ now <= req.expires_at)
            => IF SettlementFails(World, req, i)
               THEN /\ r.err # "Ok"
                    /\ r.w.computation_request[id].status = "Completed"
                    /\ after = World
                    /\ after.computation_request[id].status = "Pending"
                    /\ after.computation_request[id].result = <<>>
                    /\ after.computation_request[id].completed_at = 0
                    /\ handler_confidential_swap_callback(after, ARCIUM_MXE_PROGRAM_ID, id,
                           FALSE, EncryptedResult, i.jupiter_program, i.swap_data).err = "Ok"
                    /\ handler_cancel_computation([after EXCEPT !.now = req.expires_at + 1],
                                                  req.user, id).err = "Ok"
               ELSE r.err = "Ok"

\* A pending, unexpired request over a vault whose tree is at the leaf cap
\* and whose treasury covers the amount: the fabric's successful callback
\* fails in the insert, after the status was written.
C33_Witness ==
    \E id \in RequestIds :
        LET req == computation_request[id]
            r == handler_confidential_swap_callback(World, ARCIUM_MXE_PROGRAM_ID, id, TRUE,
                     EncryptedResult, JUPITER_V6_PROGRAM_ID, DirectRoute)
        IN /\ req.exists /\ req.status = "Pending" /\ now <= req.expires_at
           /\ req.src_token = req.dst_token
           /\ merkle_tree[req.src_token].size = MAX_LEAVES
           /\ lamports.treasury[req.src_token] >= req.amount
           /\ r.err = "MaxDepthReached"
           /\ r.w.computation_request[id].status = "Completed"


\* ------------------------------------------------------------------------
\* C34
\* ------------------------------------------------------------------------
IsPending(id) == computation_request[id].exists /\ computation_request[id].status = "Pending"

\* The step is an accepted callback on, or a successful cancel of, request id.
CallbackOrCancelOf(id) ==
    \/ \E i \in CallbackInputs(World, id) :
        LET r == handler_confidential_swap_callback(World, i.signer, id, i.success,
                     EncryptedResult, i.jupiter_program, i.swap_data)
        IN r.err = "Ok" /\ computation_request' = r.w.computation_request
    \/ \E user \in Users :
        LET r == handler_cancel_computation(World, user, id)
        IN r.err = "Ok" /\ computation_request' = r.w.computation_request

\* A pending request past its expiry: the requester's cancel succeeds and
\* every callback is turned away.
ExpiredRequestCanOnlyBeCancelled ==
    \A id \in RequestIds :
        (IsPending(id) /\ now > computation_request[id].expires_at)
            => /\ handler_cancel_computation(World, computation_request[id].user, id).err = "Ok"
               /\ \A i \in CallbackInputs(World, id) :
                    handler_confidential_swap_callback(World, i.signer, id, i.success,
                        EncryptedResult, i.jupiter_program, i.swap_data).err # "Ok"

\* C34: with the clock advancing and the cancel weakly fair, every pending
\* request eventually is pending no more; once it has expired its requester's
\* cancel succeeds and no callback is accepted for it; and a step that is
\* neither a callback nor a cancel of it, a clock step in particular, leaves
\* a pending request exactly as it is.
C34_PendingRequestEventuallyEnds ==
    /\ \A id \in RequestIds : IsPending(id) ~> ~IsPending(id)
    /\ []ExpiredRequestCanOnlyBeCancelled
    /\ [][\A id \in RequestIds :
            (IsPending(id) /\ ~CallbackOrCancelOf(id))
                => computation_request'[id] = computation_request[id]]_vars

\* A request is pending after its expiry, with the clock short of its end.
C34_Witness ==
    \E id \in RequestIds :
        /\ IsPending(id)
        /\ now > computation_request[id].expires_at
        /\ now < LiveHorizon
        /\ handler_cancel_computation(World, computation_request[id].user, id).err = "Ok"


\* ------------------------------------------------------------------------
\* C35
\* ------------------------------------------------------------------------
\* C35: when a request has ended without completing, by an accepted callback
\* with success = false or by a cancel after expiry, the nullifier bound to
\* it is not spent, and a queue with that nullifier is not turned away as
\* NullifierAlreadySpent.
C35_UncompletedRequestLeavesNullifierUnspent ==
    \A id \in RequestIds :
        LET req == computation_request[id]
            Unspent(w) ==
                /\ ~w.nullifier_account[req.vault][req.nullifier].spent
                /\ \A user \in Requesters : \A i \in QueueInputs(req.vault) :
                    i.params.nullifier = req.nullifier
                        => process_queue_confidential_swap(w, user, req.vault, i.params,
                               i.proof).err # "NullifierAlreadySpent"
        IN /\ (req.exists /\ req.status = "Failed") => Unspent(World)
           /\ \A user \in Users :
                LET r == handler_cancel_computation(World, user, id)
                IN r.err = "Ok" => Unspent(r.w)


\* ------------------------------------------------------------------------
\* C36
\* ------------------------------------------------------------------------
\* A root of the programs/zyncx engine read with the other engine's hash:
\* every poseidon_hash_two(l, r) in it becomes simple_hash(l, r).
RECURSIVE WithSimpleHash(_)
WithSimpleHash(h) ==
    IF Len(h) = 3 THEN simple_hash(WithSimpleHash(h[2]), WithSimpleHash(h[3])) ELSE h

\* The programs/zyncx tree after the inserts of leaves (at least one): its
\* last insert applied to the tree of the leaves before.  The ring of roots
\* is left out, it is not compared.
ProgramsEngineAfter(leaves) ==
    LET n == Len(leaves)
        prefix == SubSeq(leaves, 1, n - 1)
        before == [depth |-> update_depth(n - 1), size |-> n - 1,
                   current_root_index |-> (n - 1) % PROGRAMS_ROOT_HISTORY_SIZE,
                   root |-> programs_compute_root(prefix), roots |-> <<>>,
                   leaves |-> prefix]
    IN programs_insert(before, leaves[n])

\* C36: after every insert of the same leaves the two engines hold the same
\* root (under one two-input hash), the same size and the same depth; after
\* the first insert that root is H(leaf, zero).
C36_EnginesAgree ==
    LET t == merkle_tree[TreeVault]
        p == ProgramsEngineAfter(t.leaves)
    IN Len(t.leaves) >= 1
        => /\ p.err = "Ok"
           /\ WithSimpleHash(p.t.root) = t.root
           /\ p.t.size = t.size
           /\ p.t.depth = t.depth
           /\ Len(t.leaves) = 1 => p.t.root = poseidon_hash_two(t.leaves[1], Zero)


\* ------------------------------------------------------------------------
\* C37
\* ------------------------------------------------------------------------
\* C37: a withdrawal with amount > 0 and a proof the verifier accepts, from a
\* custody that covers the amount and into a tree with room, succeeds
\* whenever no earlier withdraw, swap, cross-token swap or queue has consumed
\* its nullifier under the vault.
C37_UnconsumedNullifierStaysUsable ==
    \A v \in Vaults : \A i \in WithdrawInputs(World, v) :
        LET inputs == WithdrawPublicInputs(World, v, i.amount, i.nullifier, i.new_commitment,
                                           merkle_tree[v].root)
            r == withdraw_of_kind(World, v, i.amount, i.nullifier, i.new_commitment, i.proof)
        IN (/\ i.amount > 0
            /\ VerifierAccepts(i.proof, inputs)
            /\ CustodyBalance(World, v) >= i.amount
            /\ Len(merkle_tree[v].leaves) < MAX_LEAVES
            /\ consumed[v][i.nullifier].spends = 0)
            => r.err = "Ok"


\* ------------------------------------------------------------------------
\* C38
\* ------------------------------------------------------------------------
swap_of_kind(w, v, swap_param, nullifier, new_commitment, proof, swap_data) ==
    IF w.vault[v].vault_type = "Native"
    THEN swap_handler_native(w, v, swap_param, nullifier, new_commitment, proof, swap_data)
    ELSE swap_handler_token(w, v, swap_param, nullifier, new_commitment, proof, swap_data)

\* Roots of the history window that are no longer the current root.
EarlierRoots(t) == {r \in KnownRoots(t) : r # t.root /\ root_exists(t, r)}

WithdrawAnchoredTo(w, v, root, amount, nullifier, new_commitment) ==
    withdraw_of_kind(w, v, amount, nullifier, new_commitment,
                     HonestProof(WithdrawPublicInputs(w, v, amount, nullifier, new_commitment, root)))

SwapAnchoredTo(w, v, root, amount_in, nullifier, new_commitment) ==
    swap_of_kind(w, v, SwapParam(v, v, amount_in), nullifier, new_commitment,
                 HonestProof(SwapPublicInputs(amount_in, root, new_commitment, nullifier)),
                 DirectRoute)

StaleWithdrawRejected ==
    \A v \in Vaults : \A root \in EarlierRoots(merkle_tree[v]) :
        \A n \in Nullifiers, c \in Commitments :
            WithdrawAnchoredTo(World, v, root, 1000, n, c).err # "Ok"

\* C38: withdraw and same-vault swap hand the tree's current root to the
\* verifier, so a proof anchored to an earlier root that is still in the
\* history window is not accepted by either of them.
C38_ProofAnchoredToEarlierRootRejected ==
    \A v \in Vaults : \A root \in EarlierRoots(merkle_tree[v]) :
        \A n \in Nullifiers, c \in Commitments :
            /\ WithdrawAnchoredTo(World, v, root, 1000, n, c).err # "Ok"
            /\ SwapAnchoredTo(World, v, root, 1000, n, c).err # "Ok"


\* ------------------------------------------------------------------------
\* C39
\* ------------------------------------------------------------------------
\* Every request account holds the id of its address, below the counter.
RequestIdsBelowCounter ==
    \A id \in DOMAIN computation_request :
        computation_request[id].exists =>
            /\ computation_request[id].request_id = id
            /\ id < config.request_counter

FailedQueueKeepsCounter ==
    \A user \in Requesters, v \in Vaults : \A i \in QueueInputs(v) :
        LET r == process_queue_confidential_swap(World, user, v, i.params, i.proof)
        IN r.err # "Ok" => Commit(World, r).config.request_counter = config.request_counter

QueueStep ==
    \E user \in Requesters, v \in Vaults : \E i \in QueueInputs(v) :
        LET r == process_queue_confidential_swap(World, user, v, i.params, i.proof)
        IN /\ r.err = "Ok"
           /\ Transaction(r, "queue_confidential_swap", v, i.params.nullifier)

CreatedRequests ==
    {id \in DOMAIN computation_request :
        computation_request'[id].exists /\ ~computation_request[id].exists}

FreedRequests ==
    {id \in DOMAIN computation_request :
        computation_request[id].exists /\ ~computation_request'[id].exists}

RequestIdsAdvance ==
    /\ IF QueueStep
       THEN /\ CreatedRequests = {config.request_counter}
            /\ computation_request'[config.request_counter].request_id = config.request_counter
            /\ config'.request_counter = config.request_counter + 1
       ELSE /\ CreatedRequests = {}
            /\ config'.request_counter = config.request_counter
    /\ \A id \in FreedRequests : id < config'.request_counter
    /\ \A id \in DOMAIN computation_request :
        computation_request[id].exists /\ computation_request'[id].exists
            => computation_request'[id].request_id = computation_request[id].request_id

\* C39: request ids are unique and never reused.  A successful queue creates
\* exactly one request, whose id is the counter before the call, and advances
\* the counter by one; no other step and no failed queue changes the counter
\* or creates a request; a request keeps its id; every id in use or freed by a
\* cancel is below the counter, so it is never the id of a later request.
C39_RequestIdsAreUnique ==
    /\ [](RequestIdsBelowCounter /\ FailedQueueKeepsCounter)
    /\ [][RequestIdsAdvance]_vars

\* Request 0 was queued and cancelled, and the request queued after it has
\* id 1.
C39_Witness ==
    /\ config.request_counter = 2
    /\ ~computation_request[0].exists
    /\ computation_request[1].exists
    /\ computation_request[1].request_id = 1


\* ------------------------------------------------------------------------
\* C40
\* ------------------------------------------------------------------------
\* What the depositor has paid in and what the recipient has been paid.
SumOfDeposits == CustodyFunds - lamports.depositor

SumMovedOut == lamports.recipient

CustodyIsDepositsLessMovedOut ==
    /\ lamports.treasury[NATIVE_MINT] = SumOfDeposits - SumMovedOut
    /\ lamports.treasury[NATIVE_MINT] >= 0
    /\ vault[NATIVE_MINT].total_deposited = ToU64(SumOfDeposits)

MovesOut(amount) ==
    \/ CustodyWithdraw(amount)
    \/ CustodySwap(amount)
    \/ CustodyCallback(amount, TRUE)

CustodyStep ==
    /\ \A amount \in Amounts :
        /\ CustodyDeposit(amount) =>
            /\ lamports'.treasury[NATIVE_MINT] = lamports.treasury[NATIVE_MINT] + amount
            /\ vault'[NATIVE_MINT].total_deposited =
                   checked_add(vault[NATIVE_MINT].total_deposited, amount).value
        /\ MovesOut(amount) =>
            /\ lamports'.treasury[NATIVE_MINT] = lamports.treasury[NATIVE_MINT] - amount
            /\ vault'[NATIVE_MINT].total_deposited = vault[NATIVE_MINT].total_deposited
    /\ ~(\E amount \in Amounts : CustodyDeposit(amount) \/ MovesOut(amount)) =>
        /\ lamports'.treasury[NATIVE_MINT] = lamports.treasury[NATIVE_MINT]
        /\ vault'[NATIVE_MINT].total_deposited = vault[NATIVE_MINT].total_deposited

\* C40: under deposits, withdrawals, direct-transfer swaps and direct-transfer
\* callbacks the native vault's custody is the sum of the amounts deposited
\* less the sum of the amounts moved out and is never negative, and
\* total_deposited is the sum of the amounts deposited: a deposit adds its
\* amount to both, a withdrawal, swap or callback takes its amount from custody
\* and leaves total_deposited.
C40_CustodyIsDepositsLessOutflows ==
    /\ []CustodyIsDepositsLessMovedOut
    /\ [][CustodyStep]_vars

\* Two deposits, then one amount withdrawn and one moved out by a swap or a
\* callback: custody is empty and total_deposited still counts both deposits.
C40_Witness ==
    /\ vault[NATIVE_MINT].nonce = 2
    /\ vault[NATIVE_MINT].total_deposited = ToU64(2000)
    /\ lamports.recipient = 2000
    /\ lamports.treasury[NATIVE_MINT] = 0
    /\ \E n \in CustodyNullifiers : nullifier_account[NATIVE_MINT][n].spent

====
